---- MODULE Spec2Model ----
(***************************************************************************)
(* Model of the repository-pattern library: the three repository backends  *)
(* (FakeRepository, TinyDBRepository, PypikaRepository), the entity model  *)
(* and the relationship mapper.                                            *)
(*                                                                         *)
(* An entity is [type |-> class_name, attrs |-> dict()].  Identifiers are  *)
(* positive integers; for Author (string ids) the integer is the rank of   *)
(* the string in lexicographic order.  An Optional[Entity] attribute is a  *)
(* sequence of length 0 (None) or 1; a List[Entity] attribute a sequence.  *)
(***************************************************************************)
EXTENDS Integers, Sequences, FiniteSets, TLC

VARIABLES backend, mapper, repo, last, steps

vars == <<backend, mapper, repo, last, steps>>

-----------------------------------------------------------------------------
(* Bounds of the model *)

MaxId == 2

MaxVal == 2

MaxList == 2

(* The number of add and delete calls on a repository without mapper *)
MaxSteps == 3

(* The number of add and delete calls on a repository with a mapper *)
MaxRelSteps == 2

(* The objects the caller of the FakeRepository constructs, and its calls *)
MaxObjects == 2

MaxObjectSteps == 5

(* The entity objects of a graph of single compositions *)
MaxNodes == 3

(* Python's None / SQL NULL for scalar values (ids and values are >= 1) *)
None == 0

Ids == 1..MaxId

Vals == 1..MaxVal

-----------------------------------------------------------------------------
(* Generic helpers: Python dict and list operations *)

DictSet(d, k, v) == [x \in (DOMAIN d) \cup {k} |-> IF x = k THEN v ELSE d[x]]

DictDel(d, k) == [x \in (DOMAIN d) \ {k} |-> d[x]]

DictMerge(d, e) ==
    [x \in (DOMAIN d) \cup (DOMAIN e) |-> IF x \in DOMAIN e THEN e[x] ELSE d[x]]

Range(s) == {s[k] : k \in DOMAIN s}

(* The sequences of length <= n over S without a repeated element *)
RECURSIVE DistinctSeqs(_, _)
DistinctSeqs(S, n) ==
    IF n = 0 THEN {<<>>}
    ELSE LET shorter == DistinctSeqs(S, n - 1)
         IN shorter \cup {Append(s, x) : s \in {t \in shorter : Len(t) = n - 1},
                                        x \in S}

(* The result of a call: a value, or the exception raised *)
Ok(v) == [error |-> "none", value |-> v]

Raise(exception) == [error |-> exception]

-----------------------------------------------------------------------------
(* Entity model (tests/cases/model.py), one scalar attribute per class *)

Author(i, f) == [type |-> "author", attrs |-> [id_ |-> i, first_name |-> f]]

Book(i, t) == [type |-> "book", attrs |-> [id_ |-> i, title |-> t]]

ExtendingEntity(i, f, s) ==
    [type |-> "extendingentity",
     attrs |-> [id_ |-> i, first_name |-> f, style |-> s]]

ComposingEntity(i, n, b) ==
    [type |-> "composingentity", attrs |-> [id_ |-> i, name |-> n, book |-> b]]

MultipleComposingEntity(i, n, bs) ==
    [type |-> "multiplecomposingentity",
     attrs |-> [id_ |-> i, name |-> n, books |-> bs]]

(* A client entity that is the source of a Single Composition to Author *)
(* and of a Multiple Composition to Book, declared as                  *)
(* MultipleSingleComposingEntity and MultipleComposingEntity are       *)
SingleMultipleComposingEntity(i, a, bs) ==
    [type |-> "singlemultiplecomposingentity",
     attrs |-> [id_ |-> i, author |-> a, books |-> bs]]

EntityClasses ==
    {"author", "book", "extendingentity", "composingentity",
     "multiplecomposingentity"}

(* Entity.attributes(): the declared fields of a class, in schema order *)
attributes(class) ==
    CASE class = "author" -> <<"id_", "first_name">>
      [] class = "book" -> <<"id_", "title">>
      [] class = "extendingentity" -> <<"id_", "first_name", "style">>
      [] class = "composingentity" -> <<"id_", "name", "book">>
      [] class = "multiplecomposingentity" -> <<"id_", "name", "books">>
      [] class = "singlemultiplecomposingentity" -> <<"id_", "author", "books">>

(* The declared default of a field: None, or [] for the list attribute *)
FieldDefault(attribute) ==
    IF attribute \in {"book", "books", "author"} THEN <<>> ELSE None

ID(entity) == entity.attrs.id_

(* The declared type of a field (tests/cases/model.py) *)
FieldType(class, attribute) ==
    IF attribute = "id_"
    THEN (IF class \in {"author", "extendingentity"} THEN "str" ELSE "int")
    ELSE "str"

(* A comparison that orders by id without looking at the types of the ids *)
CompareIdsUntyped(self, other) == Ok(ID(self) < ID(other))

(* Entity.__lt__: TypeError unless other.id_ is an instance of the type of *)
(* self.id_, else self.id_ < other.id_                                     *)
__lt__(self, other) ==
    IF FieldType(other.type, "id_") # FieldType(self.type, "id_")
    THEN Raise("TypeError")
    ELSE Ok(ID(self) < ID(other))

(* Entity.__gt__ *)
__gt__(self, other) ==
    IF FieldType(other.type, "id_") # FieldType(self.type, "id_")
    THEN Raise("TypeError")
    ELSE Ok(ID(self) > ID(other))

(* Entity defines __lt__, __gt__ and __hash__ and inherits the equality of *)
(* pydantic's BaseModel: two models are equal when their dict() are equal  *)
__eq__(self, other) == self.attrs = other.attrs

Books == {Book(i, t) : i \in Ids, t \in Vals}

Authors == {Author(i, f) : i \in Ids, f \in Vals}

BookLists ==
    {bs \in DistinctSeqs(Books, MaxList) :
        \A j, k \in DOMAIN bs : j # k => ID(bs[j]) # ID(bs[k])}

EntitiesOf(class) ==
    CASE class = "author" -> Authors
      [] class = "book" -> Books
      [] class = "extendingentity" ->
            {ExtendingEntity(i, f, s) : i \in Ids, f \in Vals, s \in Vals}
      [] class = "composingentity" ->
            {ComposingEntity(i, n, b) :
                i \in Ids, n \in Vals, b \in {<<>>} \cup {<<x>> : x \in Books}}
      [] class = "multiplecomposingentity" ->
            {MultipleComposingEntity(i, n, bs) :
                i \in Ids, n \in Vals, bs \in BookLists}
      [] class = "singlemultiplecomposingentity" ->
            {SingleMultipleComposingEntity(i, a, bs) :
                i \in Ids, a \in {<<>>} \cup {<<Author(j, 1)>> : j \in Ids},
                bs \in BookLists}

(* Pydantic construction of an entity from a dict: declared fields are   *)
(* taken from data or defaulted, other keys are ignored, and a missing or  *)
(* null id_ is a validation error.                                        *)
Construct(class, data) ==
    IF "id_" \notin DOMAIN data \/ data["id_"] = None
    THEN Raise("ValidationError")
    ELSE Ok([type |-> class,
             attrs |-> [a \in Range(attributes(class)) |->
                          IF a \in DOMAIN data THEN data[a]
                          ELSE FieldDefault(a)]])

(* Entity.__lt__ on two entities of one id type *)
EntityLess(a, b) == ID(a) < ID(b)

(* sorted(entities): ascending by id, for entities with distinct ids *)
Sorted(entities) ==
    LET n == Cardinality(entities)
    IN [k \in 1..n |->
          CHOOSE e \in entities :
              Cardinality({o \in entities : EntityLess(o, e)}) = k - 1]

IsAscending(es) ==
    \A j, k \in DOMAIN es : j < k => ID(es[j]) < ID(es[k])

-----------------------------------------------------------------------------
(* FakeRepository: entities and new_entities are dicts class -> id -> entity *)

FakeRepository_init == [entities |-> <<>>, new_entities |-> <<>>]

FakeStage(self) ==
    IF self.new_entities = <<>> THEN self.entities ELSE self.new_entities

FakeRepository_add(self, entity) ==
    LET staged == FakeStage(self)
        typed == IF entity.type \in DOMAIN staged THEN staged
                 ELSE DictSet(staged, entity.type, <<>>)
    IN [self |-> [self EXCEPT !.new_entities =
                    DictSet(typed, entity.type,
                            DictSet(typed[entity.type], ID(entity), entity))],
        error |-> "none"]

FakeRepository_delete(self, entity) ==
    LET staged == FakeStage(self)
    IN IF entity.type \in DOMAIN staged
       THEN [self |-> [self EXCEPT !.new_entities =
                         DictSet(staged, entity.type,
                                 DictDel(staged[entity.type], ID(entity)))],
             error |-> "none"]
       ELSE [self |-> [self EXCEPT !.new_entities = staged],
             error |-> "EntityNotFoundError"]

FakeRepository_get(self, entity_model, entity_id) ==
    IF entity_model \in DOMAIN self.entities
       /\ entity_id \in DOMAIN self.entities[entity_model]
    THEN Ok(self.entities[entity_model][entity_id])
    ELSE Raise("EntityNotFoundError")

FakeRepository_all(self, entity_model) ==
    IF entity_model \in DOMAIN self.entities
    THEN Ok(Sorted(Range(self.entities[entity_model])))
    ELSE Raise("EntityNotFoundError")

(* A commit that copies the staged dictionaries and keeps the staging area *)
FakeCommitKeepsStaging(self) ==
    [self |-> [self EXCEPT !.entities = DictMerge(self.entities, self.new_entities)],
     error |-> "none"]

FakeRepository_commit(self) ==
    [self |-> [entities |-> DictMerge(self.entities, self.new_entities),
               new_entities |-> <<>>],
     error |-> "none"]

-----------------------------------------------------------------------------
(* FakeRepository on Python objects.  objects maps a reference to the     *)
(* state of the object, entities and new_entities are dicts               *)
(* class -> id -> reference, client holds the references of the objects   *)
(* the caller constructed.  A reference is <<"client", n>> or             *)
(* <<"copy", generation, class, id>>.                                     *)

FakeObjects_init ==
    [objects |-> <<>>, client |-> {}, generation |-> 0, entities |-> <<>>,
     new_entities |-> <<>>]

(* if self.new_entities == {}: self.new_entities =                 *)
(* copy.deepcopy(self.entities.copy()): a new object for every entity *)
FakeObjects_deepcopy(self) ==
    LET copy(class, id) == <<"copy", 1 - self.generation, class, id>>
        copies == {c \in (DOMAIN self.entities) \X Ids : c[2] \in DOMAIN self.entities[c[1]]}
    IN IF self.new_entities # <<>> THEN self
       ELSE [self EXCEPT
          !.generation = 1 - @,
          !.objects = DictMerge(@, [ref \in {copy(c[1], c[2]) : c \in copies} |-> self.objects[self.entities[ref[3]][ref[4]]]]),
          !.new_entities = [class \in DOMAIN self.entities |-> [id \in DOMAIN self.entities[class] |-> copy(class, id)]]]

(* FakeRepository.add: the dict entry is the object passed in *)
FakeObjects_add(self, ref) ==
    LET staged == FakeObjects_deepcopy(self)
        entity == self.objects[ref]
        typed == IF entity.type \in DOMAIN staged.new_entities THEN staged.new_entities
                 ELSE DictSet(staged.new_entities, entity.type, <<>>)
    IN [staged EXCEPT
          !.new_entities = DictSet(typed, entity.type, DictSet(typed[entity.type], ID(entity), ref))]

(* FakeRepository.get: the object the dict entry refers to *)
FakeObjects_get(self, entity_model, entity_id) ==
    IF entity_model \in DOMAIN self.entities /\ entity_id \in DOMAIN self.entities[entity_model]
    THEN Ok(self.entities[entity_model][entity_id])
    ELSE Raise("EntityNotFoundError")

(* FakeRepository.all *)
FakeObjects_all(self, entity_model) ==
    IF entity_model \in DOMAIN self.entities
    THEN Ok(Sorted({self.objects[ref] : ref \in Range(self.entities[entity_model])}))
    ELSE Raise("EntityNotFoundError")

(* FakeRepository.commit; objects nothing refers to any more are collected *)
FakeObjects_commit(self) ==
    LET entities == DictMerge(self.entities, self.new_entities)
        live == self.client \cup UNION {Range(entities[class]) : class \in DOMAIN entities}
    IN [self EXCEPT !.entities = entities, !.new_entities = <<>>,
                    !.objects = [ref \in live |-> self.objects[ref]]]

(* Assignment to the scalar attribute of an object: entity.title = value *)
SetAttribute(self, ref, value) ==
    [self EXCEPT !.objects[ref].attrs[attributes(self.objects[ref].type)[2]] = value]

-----------------------------------------------------------------------------
(* TinyDBRepository: db_ is the document table in document-id order, and  *)
(* staged the lists of entities to upsert and to remove at commit.        *)

TinyDBRepository_init == [db_ |-> <<>>, staged |-> [add |-> <<>>, remove |-> <<>>]]

_export_entity(entity) == DictSet(entity.attrs, "model_type_", entity.type)

_build_entity(entity_data, entity_model) ==
    Construct(entity_model, DictDel(entity_data, "model_type_")).value

TinyMatch(doc, class, id) == doc["model_type_"] = class /\ doc["id_"] = id

(* An insert that does not look for a matching document *)
TinyInsert(db, doc) == Append(db, doc)

(* TinyDB.upsert: update the fields of every matching document, or insert *)
TinyUpsert(db, doc) ==
    IF \E k \in DOMAIN db : TinyMatch(db[k], doc["model_type_"], doc["id_"])
    THEN [k \in DOMAIN db |->
            IF TinyMatch(db[k], doc["model_type_"], doc["id_"])
            THEN DictMerge(db[k], doc) ELSE db[k]]
    ELSE Append(db, doc)

TinyRemove(db, class, id) ==
    LET keep(doc) == ~TinyMatch(doc, class, id) IN SelectSeq(db, keep)

TinyDBRepository_add(self, entity) ==
    [self |-> [self EXCEPT !.staged.add = Append(@, entity)], error |-> "none"]

TinyDBRepository_get(self, entity_model, entity_id) ==
    LET match(doc) == TinyMatch(doc, entity_model, entity_id)
        found == SelectSeq(self.db_, match)
    IN IF found = <<>> THEN Raise("EntityNotFoundError")
       ELSE Ok(_build_entity(found[1], entity_model))

TinyDBRepository_delete(self, entity) ==
    IF TinyDBRepository_get(self, entity.type, ID(entity)).error # "none"
    THEN [self |-> self, error |-> "EntityNotFoundError"]
    ELSE [self |-> [self EXCEPT !.staged.remove = Append(@, entity)],
          error |-> "none"]

TinyDBRepository_all(self, entity_model) ==
    LET match(doc) == doc["model_type_"] = entity_model
        found == SelectSeq(self.db_, match)
    IN IF found = <<>> THEN Raise("EntityNotFoundError")
       ELSE Ok([k \in DOMAIN found |-> _build_entity(found[k], entity_model)])

(* max(entities) with the comparison of repository_orm's Entity, which *)
(* compares the ids of any two entities: the first entity whose id no  *)
(* other entity exceeds                                                *)
max(entities) ==
    LET greatest(k) == \A j \in DOMAIN entities : ~(ID(entities[j]) > ID(entities[k]))
    IN entities[CHOOSE k \in DOMAIN entities :
                    /\ greatest(k)
                    /\ \A j \in 1..(k - 1) : ~greatest(j)]

(* AbstractRepository.last: the committed entity of the type with the *)
(* greatest id                                                         *)
AbstractRepository_last(self, entity_model) ==
    LET entities == TinyDBRepository_all(self, entity_model)
    IN IF entities.error # "none" THEN entities
       ELSE Ok(max(entities.value))

TinyDBRepository_last(self, entity_model, index) ==
    LET last_index_entity == AbstractRepository_last(self, entity_model)
    IN IF last_index_entity.error # "none"
       THEN IF ~index /\ self.staged.add # <<>>
            THEN Ok(max(self.staged.add))
            ELSE last_index_entity
       ELSE IF index \/ self.staged.add = <<>> THEN last_index_entity
       ELSE Ok(max(<<last_index_entity.value, max(self.staged.add)>>))

TinyDBRepository_commit(self) ==
    LET adds == self.staged.add
        removes == self.staged.remove
        Upserted[k \in 0..Len(adds)] ==
            IF k = 0 THEN self.db_
            ELSE TinyUpsert(Upserted[k - 1], _export_entity(adds[k]))
        Removed[k \in 0..Len(removes)] ==
            IF k = 0 THEN Upserted[Len(adds)]
            ELSE TinyRemove(Removed[k - 1], removes[k].type, ID(removes[k]))
    IN [self |-> [db_ |-> Removed[Len(removes)],
                  staged |-> [add |-> <<>>, remove |-> <<>>]],
        error |-> "none"]

-----------------------------------------------------------------------------
(* Relationship model and Mapper *)

(* An argument that is not supplied (Python None for a str field) *)
Unset == "None"

Superclasses(class) == IF class = "extendingentity" THEN {"author"} ELSE {}

EntityExtension(source, destination) ==
    [kind |-> "EntityExtension", source |-> source, destination |-> destination,
     source_id |-> "id_", destination_id |-> "id_", source_attribute |-> Unset]

(* An Extension built without validating the supplied ids *)
ExtensionUnvalidated(source, destination, source_id, destination_id) ==
    Ok([kind |-> "EntityExtension", source |-> source,
        destination |-> destination,
        source_id |-> IF source_id = Unset THEN "id_" ELSE source_id,
        destination_id |-> IF destination_id = Unset THEN "id_"
                           ELSE destination_id,
        source_attribute |-> Unset])

(* EntityExtension(source=, destination=, source_id=, destination_id=): an  *)
(* id that is not supplied takes the field default "id_"; both validators   *)
(* raise ValueError for any other value, and no object is built.            *)
NewEntityExtension(source, destination, source_id, destination_id) ==
    LET given_source_id == IF source_id = Unset THEN "id_" ELSE source_id
        given_destination_id ==
            IF destination_id = Unset THEN "id_" ELSE destination_id
    IN IF given_source_id # "id_" \/ given_destination_id # "id_"
       THEN Raise("ValueError")
       ELSE Ok(EntityExtension(source, destination))

EntityComposition(source, destination, source_id, destination_id, source_attribute) ==
    [kind |-> "EntityComposition", source |-> source,
     destination |-> destination,
     source_id |-> IF source_id = Unset THEN destination \o "_id"
                   ELSE source_id,
     destination_id |-> IF destination_id = Unset THEN "id_"
                        ELSE destination_id,
     source_attribute |-> IF source_attribute = Unset THEN destination
                          ELSE source_attribute]

(* A Multiple Composition that always takes the default source_attribute *)
MultipleCompositionDefaultAttribute(source, destination, source_id, destination_id, source_attribute) ==
    [kind |-> "EntityMultipleComposition", source |-> source,
     destination |-> destination,
     source_id |-> IF source_id = Unset THEN "id_" ELSE source_id,
     destination_id |-> IF destination_id = Unset THEN "id_"
                        ELSE destination_id,
     source_attribute |-> destination \o "s"]

EntityMultipleComposition(source, destination, source_id, destination_id, source_attribute) ==
    [kind |-> "EntityMultipleComposition", source |-> source,
     destination |-> destination,
     source_id |-> IF source_id = Unset THEN "id_" ELSE source_id,
     destination_id |-> IF destination_id = Unset THEN "id_"
                        ELSE destination_id,
     source_attribute |-> IF source_attribute = Unset THEN destination \o "s"
                          ELSE source_attribute]

(* Relationship.is_source for an entity object: isinstance(entity, source) *)
is_source(relationship, entity) ==
    entity.type = relationship.source
    \/ relationship.source \in Superclasses(entity.type)

(* Relationship.is_source for an entity class: entity == source *)
is_source_model(relationship, entity_model) ==
    entity_model = relationship.source

is_(relationship, relationship_type) == relationship.kind = relationship_type

(* The relationships whose source is the entity model *)
SourceRelationships(relationships, entity_model) ==
    LET affects(relationship) == entity_model = relationship.source
    IN SelectSeq(relationships, affects)

(* Mapper.get_relationships *)
get_relationships(relationships, entity_model) ==
    LET affects(relationship) ==
            entity_model \in {relationship.source, relationship.destination}
    IN SelectSeq(relationships, affects)

-----------------------------------------------------------------------------
(* The SQLite store of the PypikaRepository.  A database is a function    *)
(* table name -> rows in rowid order; a row is a function column -> value *)

RelationshipTable(relationship) ==
    relationship.source \o "_" \o relationship.destination \o "_relationship"

RelationshipColumns(relationship) ==
    <<relationship.source \o "_id", relationship.destination \o "_id">>

(* tests/migrations/pypika/0001_initial_schema.py *)
TableColumns(table) ==
    CASE table = "author" -> {"id_", "first_name"}
      [] table = "book" -> {"id_", "title"}
      [] table = "extendingentity" -> {"id_", "style"}
      [] table = "composingentity" -> {"id_", "name", "book_id"}
      [] table = "multiplecomposingentity" -> {"id_", "name"}
      [] table = "multiplecomposingentity_book_relationship" ->
            {"multiplecomposingentity_id", "book_id"}
      [] table = "singlemultiplecomposingentity" -> {"id_", "author_id"}
      [] table = "singlemultiplecomposingentity_book_relationship" ->
            {"singlemultiplecomposingentity_id", "book_id"}

(* The join tables of the Multiple Compositions *)
RelationshipTables ==
    {"multiplecomposingentity_book_relationship",
     "singlemultiplecomposingentity_book_relationship"}

TableNames ==
    EntityClasses \cup {"singlemultiplecomposingentity"} \cup RelationshipTables

(* The columns of the table's PRIMARY KEY or UNIQUE constraint *)
UniqueColumns(table) ==
    IF table \in RelationshipTables THEN TableColumns(table) ELSE {"id_"}

EmptyDatabase == [table \in TableNames |-> <<>>]

_table(entity_model) == entity_model

(* _upsert: the INSERT ... ON CONFLICT statement, or "" without values *)
_upsert(table, columns, values, mode) ==
    IF values = <<>> THEN [statement |-> ""]
    ELSE [statement |-> "insert", table |-> table, columns |-> columns,
          values |-> values, mode |-> mode]

DeleteQuery(table, column, ids) ==
    [statement |-> "delete", table |-> table, column |-> column, ids |-> ids]

SqlConflict(row, other, table) ==
    \A column \in UniqueColumns(table) : row[column] = other[column]

(* One row of an INSERT ... ON CONFLICT(id_) DO UPDATE / DO NOTHING *)
SqlInsertRow(rows, table, data, mode) ==
    LET row == [column \in TableColumns(table) |->
                  IF column \in DOMAIN data THEN data[column] ELSE None]
    IN IF \E k \in DOMAIN rows : SqlConflict(row, rows[k], table)
       THEN IF mode = "update"
            THEN [k \in DOMAIN rows |->
                    IF SqlConflict(row, rows[k], table)
                    THEN DictMerge(rows[k], data) ELSE rows[k]]
            ELSE rows
       ELSE Append(rows, row)

(* cursor.execute of an insert or delete statement on the connection *)
_execute(connection, query) ==
    IF query.table \notin TableNames
    THEN [connection |-> connection, error |-> "OperationalError"]
    ELSE IF query.statement = "insert"
    THEN IF \E k \in DOMAIN query.columns :
                query.columns[k] \notin TableColumns(query.table)
         THEN [connection |-> connection, error |-> "OperationalError"]
         ELSE LET data(values) ==
                      [column \in Range(query.columns) |->
                         values[CHOOSE k \in DOMAIN query.columns :
                                    query.columns[k] = column]]
                  Inserted[k \in 0..Len(query.values)] ==
                      IF k = 0 THEN connection[query.table]
                      ELSE SqlInsertRow(Inserted[k - 1], query.table,
                                        data(query.values[k]), query.mode)
              IN [connection |->
                      [connection EXCEPT ![query.table] =
                          Inserted[Len(query.values)]],
                  error |-> "none"]
    ELSE LET keep(row) == row[query.column] \notin query.ids
         IN [connection |->
                 [connection EXCEPT ![query.table] = SelectSeq(@, keep)],
             error |-> "none"]

-----------------------------------------------------------------------------
(* PypikaRepository.add: every statement runs at once on the connection   *)

KeysOf(d) ==
    LET RECURSIVE Enumerate(_)
        Enumerate(S) ==
            IF S = {} THEN <<>>
            ELSE LET x == CHOOSE y \in S : TRUE
                 IN <<x>> \o Enumerate(S \ {x})
    IN Enumerate(DOMAIN d)

(* list.remove(x) under suppress(ValueError): drop the first occurrence *)
RemoveFirst(s, x) ==
    IF x \notin Range(s) THEN s
    ELSE LET first == CHOOSE k \in DOMAIN s :
                        s[k] = x /\ \A j \in 1..(k - 1) : s[j] # x
         IN SubSeq(s, 1, first - 1) \o SubSeq(s, first + 1, Len(s))

(* An insert of the entity that keeps the row already stored under its id *)
AddEntityIgnore(connection, entity, entity_attributes) ==
    LET columns == KeysOf(entity_attributes)
        values == [k \in DOMAIN columns |-> entity_attributes[columns[k]]]
    IN _execute(connection,
                _upsert(_table(entity.type), columns, <<values>>, "ignore"))

_add_entity(connection, entity, entity_attributes) ==
    LET columns == KeysOf(entity_attributes)
        values == [k \in DOMAIN columns |-> entity_attributes[columns[k]]]
    IN _execute(connection,
                _upsert(_table(entity.type), columns, <<values>>, "update"))

RECURSIVE PypikaRepository_add(_, _, _)

_add_entity_extension(relationships, relationship, entity, cleaned) ==
    LET destination_columns == Range(attributes(relationship.destination))
        shared == (DOMAIN cleaned.entity_attributes) \cap destination_columns
        destination_attributes ==
            [a \in shared \cup {"id_"} |->
                IF a \in shared THEN cleaned.entity_attributes[a]
                ELSE ID(entity)]
        added == PypikaRepository_add(
                     cleaned.connection, relationships,
                     Construct(relationship.destination,
                               destination_attributes).value)
    IN [connection |-> added.connection,
        entity_attributes |->
            [a \in (DOMAIN cleaned.entity_attributes) \ (shared \ {"id_"}) |->
                cleaned.entity_attributes[a]],
        post_queries |-> cleaned.post_queries,
        error |-> added.error]

(* Storing the foreign key of the composed entity without adding the entity *)
SingleCompositionKeyOnly(relationships, relationship, entity, cleaned) ==
    LET populated_entity == entity.attrs[relationship.source_attribute]
        source_id == IF populated_entity # <<>> THEN ID(populated_entity[1])
                     ELSE None
    IN [connection |-> cleaned.connection,
        entity_attributes |->
            DictDel(DictSet(cleaned.entity_attributes, relationship.source_id,
                            source_id),
                    relationship.source_attribute),
        post_queries |-> cleaned.post_queries,
        error |-> "none"]

_add_single_composition(relationships, relationship, entity, cleaned) ==
    LET populated_entity == entity.attrs[relationship.source_attribute]
        added == IF populated_entity # <<>>
                 THEN PypikaRepository_add(cleaned.connection, relationships,
                                           populated_entity[1])
                 ELSE [connection |-> cleaned.connection, error |-> "none"]
        source_id == IF populated_entity # <<>> THEN ID(populated_entity[1])
                     ELSE None
    IN [connection |-> added.connection,
        entity_attributes |->
            DictDel(DictSet(cleaned.entity_attributes, relationship.source_id,
                            source_id),
                    relationship.source_attribute),
        post_queries |-> cleaned.post_queries,
        error |-> added.error]

(* A DELETE that leaves the links that are no longer referenced *)
StaleLinksKept(relationship, entity, existing_entity_ids) ==
    DeleteQuery(RelationshipTable(relationship),
                RelationshipColumns(relationship)[2], {})

(* A DELETE of the entities that are no longer referenced themselves *)
StaleLinksCascade(relationship, entity, existing_entity_ids) ==
    DeleteQuery(_table(relationship.destination), relationship.destination_id,
                Range(existing_entity_ids))

(* The DELETE of the links that are no longer referenced *)
StaleLinksQuery(relationship, entity, existing_entity_ids) ==
    DeleteQuery(RelationshipTable(relationship),
                RelationshipColumns(relationship)[2],
                Range(existing_entity_ids))

(* A Multiple Composition that adds the referenced entities and runs *)
(* its join-table queries at once, before the source is written     *)
MultipleCompositionLinksFirst(relationships, relationship, entity, cleaned) ==
    LET populated_entities == entity.attrs[relationship.source_attribute]
        Persisted[k \in 0..Len(populated_entities)] ==
            IF k = 0 THEN [connection |-> cleaned.connection, error |-> "none"]
            ELSE IF Persisted[k - 1].error # "none" THEN Persisted[k - 1]
            ELSE PypikaRepository_add(Persisted[k - 1].connection, relationships, populated_entities[k])
        persisted == Persisted[Len(populated_entities)]
        values == [k \in DOMAIN populated_entities |-> <<ID(entity), ID(populated_entities[k])>>]
        linked == IF persisted.error # "none" \/ values = <<>> THEN persisted
                  ELSE _execute(persisted.connection,
                                _upsert(RelationshipTable(relationship), RelationshipColumns(relationship), values, "pass"))
    IN [connection |-> linked.connection,
        entity_attributes |-> DictDel(cleaned.entity_attributes, relationship.source_attribute),
        post_queries |-> cleaned.post_queries,
        error |-> linked.error]

_add_multiple_composition(relationships, relationship, entity, cleaned) ==
    LET relationship_table == RelationshipTable(relationship)
        columns == RelationshipColumns(relationship)
        ofEntity(row) == row[columns[1]] = ID(entity)
        existing_rows ==
            SelectSeq(cleaned.connection[relationship_table], ofEntity)
        existing_entity_ids ==
            [k \in DOMAIN existing_rows |-> existing_rows[k][columns[2]]]
        populated_entities == entity.attrs[relationship.source_attribute]
        Persisted[k \in 0..Len(populated_entities)] ==
            IF k = 0
            THEN [connection |-> cleaned.connection, values |-> <<>>,
                  existing_entity_ids |-> existing_entity_ids,
                  error |-> "none"]
            ELSE LET before == Persisted[k - 1]
                     populated_entity == populated_entities[k]
                     added == PypikaRepository_add(before.connection,
                                                   relationships,
                                                   populated_entity)
                 IN IF before.error # "none" THEN before
                    ELSE IF added.error # "none"
                    THEN [before EXCEPT !.connection = added.connection,
                                        !.error = added.error]
                    ELSE [connection |-> added.connection,
                          values |->
                              IF ID(populated_entity)
                                   \notin Range(before.existing_entity_ids)
                              THEN Append(before.values,
                                          <<ID(entity), ID(populated_entity)>>)
                              ELSE before.values,
                          existing_entity_ids |->
                              RemoveFirst(before.existing_entity_ids,
                                          ID(populated_entity)),
                          error |-> "none"]
        persisted == Persisted[Len(populated_entities)]
        query == _upsert(relationship_table, columns, persisted.values, "pass")
        inserts == IF query.statement # "" THEN <<query>> ELSE <<>>
        deletes == IF Len(persisted.existing_entity_ids) > 0
                   THEN <<StaleLinksQuery(relationship, entity,
                                          persisted.existing_entity_ids)>>
                   ELSE <<>>
    IN IF relationship_table \notin TableNames
       THEN [cleaned EXCEPT !.error = "OperationalError"]
       ELSE [connection |-> persisted.connection,
             entity_attributes |->
                 DictDel(cleaned.entity_attributes,
                         relationship.source_attribute),
             post_queries |-> cleaned.post_queries \o inserts \o deletes,
             error |-> persisted.error]

_clean_relationships(connection, relationships, entity) ==
    LET affecting == get_relationships(relationships, entity.type)
        Cleaned[k \in 0..Len(affecting)] ==
            IF k = 0
            THEN [connection |-> connection, entity_attributes |-> entity.attrs,
                  post_queries |-> <<>>, error |-> "none"]
            ELSE LET before == Cleaned[k - 1]
                     relationship == affecting[k]
                 IN IF before.error # "none" \/ ~is_source(relationship, entity)
                    THEN before
                    ELSE IF is_(relationship, "EntityExtension")
                    THEN _add_entity_extension(relationships, relationship,
                                               entity, before)
                    ELSE IF is_(relationship, "EntityComposition")
                    THEN _add_single_composition(relationships, relationship,
                                                 entity, before)
                    ELSE IF is_(relationship, "EntityMultipleComposition")
                    THEN _add_multiple_composition(relationships, relationship,
                                                   entity, before)
                    ELSE before
    IN Cleaned[Len(affecting)]

PypikaRepository_add(connection, relationships, entity) ==
    LET cleaned == _clean_relationships(connection, relationships, entity)
        added == _add_entity(cleaned.connection, entity,
                             cleaned.entity_attributes)
        Executed[k \in 0..Len(cleaned.post_queries)] ==
            IF k = 0 THEN added
            ELSE IF Executed[k - 1].error # "none" THEN Executed[k - 1]
            ELSE _execute(Executed[k - 1].connection, cleaned.post_queries[k])
    IN IF cleaned.error # "none"
       THEN [connection |-> cleaned.connection, error |-> cleaned.error]
       ELSE Executed[Len(cleaned.post_queries)]

-----------------------------------------------------------------------------
(* PypikaRepository.get: the select query, its execution and the loading  *)
(* of the relationships.  A select column is aliased "<class>.<attribute>",*)
(* written <<class, attribute>>; no class name of the model is a prefix   *)
(* of another, so the prefix match of _get_entity_attributes selects the  *)
(* aliases whose first component is the class.                            *)

_add_select_column_attribute(table, entity_model, attribute) ==
    [table |-> table, name |-> attribute, alias |-> <<entity_model, attribute>>]

_get_select_columns(table, entity_model) ==
    [k \in DOMAIN attributes(entity_model) |->
        _add_select_column_attribute(table, entity_model,
                                     attributes(entity_model)[k])]

(* The loop inspects range(len(columns) - 1): never the last column *)
_delete_select_column_attribute(table, entity_model, attribute, columns) ==
    LET hits == {k \in 1..(Len(columns) - 1) :
                    columns[k].table = table /\ columns[k].name = attribute}
    IN IF hits = {} THEN columns
       ELSE LET k == CHOOSE h \in hits : \A o \in hits : h <= o
            IN SubSeq(columns, 1, k - 1) \o SubSeq(columns, k + 1, Len(columns))

_build_entity_extension_query(relationship, query) ==
    LET source_table == _table(relationship.source)
        destination_table == _table(relationship.destination)
        destination_attributes == attributes(relationship.destination)
        Rewritten[k \in 0..Len(destination_attributes)] ==
            IF k = 0 THEN query.columns
            ELSE Append(_delete_select_column_attribute(
                            source_table, relationship.source,
                            destination_attributes[k], Rewritten[k - 1]),
                        _add_select_column_attribute(
                            destination_table, relationship.destination,
                            destination_attributes[k]))
    IN [query EXCEPT
          !.joins = Append(@, [kind |-> "inner", table |-> destination_table,
                               column |-> "id_", other_table |-> source_table,
                               other_column |-> "id_"]),
          !.columns = Rewritten[Len(destination_attributes)]]

_build_entity_composition_query(relationship, query) ==
    LET source_table == _table(relationship.source)
        destination_table == _table(relationship.destination)
    IN [query EXCEPT
          !.joins = Append(@, [kind |-> "left", table |-> destination_table,
                               column |-> relationship.destination_id,
                               other_table |-> source_table,
                               other_column |-> relationship.source_id]),
          !.columns = _delete_select_column_attribute(
                          source_table, relationship.source,
                          relationship.source_attribute,
                          Append(@, _add_select_column_attribute(
                                        source_table, relationship.source,
                                        relationship.source_id))
                            \o _get_select_columns(destination_table,
                                                   relationship.destination))]

_build_entity_multiple_composition_query(relationship, query) ==
    LET source_table == _table(relationship.source)
        destination_table == _table(relationship.destination)
        join_table == RelationshipTable(relationship)
    IN [query EXCEPT
          !.joins = @ \o
              <<[kind |-> "left", table |-> join_table,
                 column |-> RelationshipColumns(relationship)[1],
                 other_table |-> source_table,
                 other_column |-> relationship.source_id],
                [kind |-> "left", table |-> destination_table,
                 column |-> relationship.destination_id,
                 other_table |-> join_table,
                 other_column |-> RelationshipColumns(relationship)[2]]>>,
          !.columns = _delete_select_column_attribute(
                          source_table, relationship.source,
                          relationship.source_attribute,
                          @ \o _get_select_columns(destination_table,
                                                   relationship.destination))]

(* Not raising for the destination class of an Extension *)
ExtensionDestinationAccepted(relationship, entity_model) == FALSE

(* Raising for every Extension whose destination is the requested class *)
ExtensionDestinationCheck(relationship, entity_model) ==
    is_(relationship, "EntityExtension")

_build_get_query(relationships, entity_model, entity_id) ==
    LET source_table == _table(entity_model)
        affecting == get_relationships(relationships, entity_model)
        Built[k \in 0..Len(affecting)] ==
            IF k = 0
            THEN Ok([from |-> source_table, joins |-> <<>>,
                     columns |-> _get_select_columns(source_table, entity_model),
                     where_id |-> entity_id])
            ELSE LET before == Built[k - 1]
                     relationship == affecting[k]
                 IN IF before.error # "none" THEN before
                    ELSE IF ~is_source_model(relationship, entity_model)
                    THEN IF ExtensionDestinationCheck(relationship, entity_model)
                         THEN Raise("EntityNotFoundError")
                         ELSE before
                    ELSE IF is_(relationship, "EntityExtension")
                    THEN Ok(_build_entity_extension_query(relationship,
                                                          before.value))
                    ELSE IF is_(relationship, "EntityComposition")
                    THEN Ok(_build_entity_composition_query(relationship,
                                                            before.value))
                    ELSE IF is_(relationship, "EntityMultipleComposition")
                    THEN Ok(_build_entity_multiple_composition_query(
                                relationship, before.value))
                    ELSE before
    IN Built[Len(affecting)]

NullRow(table) == [column \in TableColumns(table) |-> None]

(* SQLite looks the joined rows up in the automatic index of the table's  *)
(* PRIMARY KEY or UNIQUE constraint, and returns them in index order: the *)
(* links of one source by ascending destination id.                       *)
SqlIndexKey(table, row) ==
    IF table \in RelationshipTables
    THEN row["book_id"] ELSE row["id_"]

SqlIndexOrder(table, rows) ==
    [k \in DOMAIN rows |->
        rows[CHOOSE j \in DOMAIN rows :
                Cardinality({i \in DOMAIN rows :
                    SqlIndexKey(table, rows[i]) < SqlIndexKey(table, rows[j])})
                  = k - 1]]

(* The rows a join adds to one row of the tables joined so far *)
SqlJoinRow(connection, partial, join) ==
    LET key == partial[join.other_table][join.other_column]
        match(row) == key # None /\ row[join.column] = key
        matches == SqlIndexOrder(join.table,
                                 SelectSeq(connection[join.table], match))
    IN IF matches = <<>>
       THEN IF join.kind = "left"
            THEN <<DictSet(partial, join.table, NullRow(join.table))>>
            ELSE <<>>
       ELSE [k \in DOMAIN matches |-> DictSet(partial, join.table, matches[k])]

SqlJoin(connection, partials, join) ==
    LET Joined[k \in 0..Len(partials)] ==
            IF k = 0 THEN <<>>
            ELSE Joined[k - 1] \o SqlJoinRow(connection, partials[k], join)
    IN Joined[Len(partials)]

SqlQueryValid(query) ==
    /\ query.from \in TableNames
    /\ \A k \in DOMAIN query.joins :
          /\ query.joins[k].table \in TableNames
          /\ query.joins[k].other_table \in TableNames
          /\ query.joins[k].column \in TableColumns(query.joins[k].table)
          /\ query.joins[k].other_column
                \in TableColumns(query.joins[k].other_table)
    /\ \A k \in DOMAIN query.columns :
          /\ query.columns[k].table \in TableNames
          /\ query.columns[k].name \in TableColumns(query.columns[k].table)

(* _build_entities_attributes: execute the select and return one dict     *)
(* alias -> value per result row                                          *)
_build_entities_attributes(connection, query) ==
    LET selected(row) == row["id_"] = query.where_id
        base == SelectSeq(connection[query.from], selected)
        Joined[k \in 0..Len(query.joins)] ==
            IF k = 0 THEN [j \in DOMAIN base |-> (query.from :> base[j])]
            ELSE SqlJoin(connection, Joined[k - 1], query.joins[k])
        rows == Joined[Len(query.joins)]
        aliases == {query.columns[k].alias : k \in DOMAIN query.columns}
        column(alias) ==
            query.columns[CHOOSE k \in DOMAIN query.columns :
                /\ query.columns[k].alias = alias
                /\ \A j \in DOMAIN query.columns :
                      query.columns[j].alias = alias => j <= k]
    IN IF ~SqlQueryValid(query) THEN Raise("OperationalError")
       ELSE Ok([j \in DOMAIN rows |->
                  [alias \in aliases |->
                      rows[j][column(alias).table][column(alias).name]]])

_get_entity_attributes(entity_model, entity_attributes) ==
    [attribute \in {alias[2] : alias \in {a \in DOMAIN entity_attributes :
                                              a[1] = entity_model}} |->
        entity_attributes[<<entity_model, attribute>>]]

(* Relational get on the text of the column aliases.  A name is the     *)
(* sequence of its characters; a joined result row is the sequence of   *)
(* its <<alias, value>> items in column order.                          *)

(* Lowercase class names and attribute names of the caller's entities *)
ClassNames == {<<"b", "o", "o", "k">>, <<"b", "o", "o", "k", "s", "h", "e", "l", "f">>, <<"a", "u", "t", "h", "o", "r">>}

AttributeNames == {<<"t", "i", "t", "l", "e">>, <<"b", "o", "o", "k", "_", "i", "d">>, <<"n", "a", "m", "e">>, <<"a", "u", "t", "h", "o", "r", "_", "n", "a", "m", "e">>}

(* as_(f"{entity_model.class_name()}.{attribute}") *)
ColumnAlias(class_name, attribute) == class_name \o <<".">> \o attribute

(* _get_entity_attributes: re.match(rf"{class_name}.*", attribute) holds *)
(* when the alias starts with the class name, and                        *)
(* re.sub(rf"{class_name}.", "", attribute) removes every occurrence of  *)
(* the class name together with the character that follows it            *)
GetEntityAttributesByPattern(class_name, entity_attributes) ==
    LET n == Len(class_name)
        match(attribute) == Len(attribute) >= n /\ SubSeq(attribute, 1, n) = class_name
        RECURSIVE sub(_)
        sub(attribute) ==
            IF attribute = <<>> THEN <<>>
            ELSE IF Len(attribute) > n /\ SubSeq(attribute, 1, n) = class_name
            THEN sub(SubSeq(attribute, n + 2, Len(attribute)))
            ELSE <<Head(attribute)>> \o sub(Tail(attribute))
        New[k \in 0..Len(entity_attributes)] ==
            IF k = 0 THEN <<>>
            ELSE IF match(entity_attributes[k][1])
            THEN DictSet(New[k - 1], sub(entity_attributes[k][1]), entity_attributes[k][2])
            ELSE New[k - 1]
    IN New[Len(entity_attributes)]

_load_entity_extension(relationship, loaded, mixed_entity_attributes) ==
    [loaded EXCEPT !.entity_attributes =
        DictMerge(@, _get_entity_attributes(relationship.destination,
                                            mixed_entity_attributes))]

_load_entity_single_composition(relationship, loaded, mixed_entity_attributes) ==
    IF relationship.source_id \notin DOMAIN loaded.entity_attributes
    THEN [loaded EXCEPT !.error = "KeyError"]
    ELSE LET destination_id ==
                 loaded.entity_attributes[relationship.source_id]
             populated_entity ==
                 Construct(relationship.destination,
                           _get_entity_attributes(relationship.destination,
                                                  mixed_entity_attributes))
         IN IF destination_id = None
            THEN [loaded EXCEPT !.entity_attributes =
                                    DictDel(@, relationship.source_id)]
            ELSE IF populated_entity.error # "none"
            THEN [loaded EXCEPT !.error = populated_entity.error]
            ELSE [loaded EXCEPT !.entity_attributes =
                    DictDel(DictSet(@, relationship.source_attribute,
                                    <<populated_entity.value>>),
                            relationship.source_id)]

_load_entity_multiple_composition(relationship, loaded, mixed_entity_attributes) ==
    LET current ==
            IF relationship.source_attribute \in DOMAIN loaded.entity_attributes
            THEN loaded.entity_attributes[relationship.source_attribute]
            ELSE <<>>
        populated_entity_attributes ==
            _get_entity_attributes(relationship.destination,
                                   mixed_entity_attributes)
    IN IF "id_" \notin DOMAIN populated_entity_attributes
       THEN [loaded EXCEPT !.error = "KeyError"]
       ELSE [loaded EXCEPT !.entity_attributes =
               DictSet(@, relationship.source_attribute,
                       IF populated_entity_attributes["id_"] # None
                       THEN Append(current,
                                   Construct(relationship.destination,
                                             populated_entity_attributes).value)
                       ELSE current)]

_load_relationships(relationships, entity_model, mixed_entities_attributes) ==
    LET affecting == get_relationships(relationships, entity_model)
        rows == Len(mixed_entities_attributes)
        (* step s loads relationship (s - 1) % n + 1 of row (s - 1) \div n + 1 *)
        n == Len(affecting)
        Loaded[s \in 0..(rows * n)] ==
            IF s = 0
            THEN [entity_attributes |->
                      _get_entity_attributes(entity_model,
                                             mixed_entities_attributes[1]),
                  error |-> "none"]
            ELSE LET before == Loaded[s - 1]
                     relationship == affecting[((s - 1) % n) + 1]
                     mixed == mixed_entities_attributes[((s - 1) \div n) + 1]
                 IN IF before.error # "none"
                       \/ ~is_source_model(relationship, entity_model)
                    THEN before
                    ELSE IF is_(relationship, "EntityExtension")
                    THEN _load_entity_extension(relationship, before, mixed)
                    ELSE IF is_(relationship, "EntityComposition")
                    THEN _load_entity_single_composition(relationship, before,
                                                         mixed)
                    ELSE IF is_(relationship, "EntityMultipleComposition")
                    THEN _load_entity_multiple_composition(relationship,
                                                           before, mixed)
                    ELSE before
        loaded == Loaded[rows * n]
    IN IF loaded.error # "none" THEN Raise(loaded.error)
       ELSE Construct(entity_model, loaded.entity_attributes)

PypikaRepository_get(connection, relationships, entity_model, entity_id) ==
    LET query == _build_get_query(relationships, entity_model, entity_id)
        entities_attributes ==
            _build_entities_attributes(connection, query.value)
    IN IF query.error # "none" THEN query
       ELSE IF entities_attributes.error # "none" THEN entities_attributes
       ELSE IF Len(entities_attributes.value) = 0
       THEN Raise("EntityNotFoundError")
       ELSE _load_relationships(relationships, entity_model,
                                entities_attributes.value)

(* _build_entities on the rows of SELECT *: one entity per row, in rowid *)
(* order                                                                 *)
_build_entities(entity_model, rows) ==
    [k \in DOMAIN rows |-> Construct(entity_model, rows[k]).value]

PypikaRepository_all(connection, entity_model) ==
    LET entities == _build_entities(entity_model,
                                    connection[_table(entity_model)])
    IN IF Len(entities) = 0 THEN Raise("EntityNotFoundError")
       ELSE Ok(entities)

PypikaRepository_delete(connection, relationships, entity) ==
    LET found == PypikaRepository_get(connection, relationships, entity.type,
                                      ID(entity))
    IN IF found.error # "none"
       THEN [connection |-> connection, error |-> found.error]
       ELSE _execute(connection,
                     DeleteQuery(_table(entity.type), "id_", {ID(entity)}))

(* connection.commit(): the writes of the connection become durable.      *)
(* connection is what the repository's own cursor reads, database what a  *)
(* second connection to the same file reads.                              *)
PypikaRepository_commit(self) ==
    [self |-> [self EXCEPT !.database = self.connection], error |-> "none"]

PypikaRepository_init ==
    [connection |-> EmptyDatabase, database |-> EmptyDatabase]

-----------------------------------------------------------------------------
(* The repository interface, dispatched on the backend *)

Backends == {"fake", "tinydb", "pypika"}

add(b, relationships, self, entity) ==
    CASE b = "fake" -> FakeRepository_add(self, entity)
      [] b = "tinydb" -> TinyDBRepository_add(self, entity)
      [] b = "pypika" ->
            LET added == PypikaRepository_add(self.connection, relationships,
                                              entity)
            IN [self |-> [self EXCEPT !.connection = added.connection],
                error |-> added.error]

delete(b, relationships, self, entity) ==
    CASE b = "fake" -> FakeRepository_delete(self, entity)
      [] b = "tinydb" -> TinyDBRepository_delete(self, entity)
      [] b = "pypika" ->
            LET deleted == PypikaRepository_delete(self.connection,
                                                   relationships, entity)
            IN [self |-> [self EXCEPT !.connection = deleted.connection],
                error |-> deleted.error]

commit(b, self) ==
    CASE b = "fake" -> FakeRepository_commit(self)
      [] b = "tinydb" -> TinyDBRepository_commit(self)
      [] b = "pypika" -> PypikaRepository_commit(self)

get(b, relationships, self, entity_model, entity_id) ==
    CASE b = "fake" -> FakeRepository_get(self, entity_model, entity_id)
      [] b = "tinydb" -> TinyDBRepository_get(self, entity_model, entity_id)
      [] b = "pypika" -> PypikaRepository_get(self.connection, relationships,
                                              entity_model, entity_id)

all(b, self, entity_model) ==
    CASE b = "fake" -> FakeRepository_all(self, entity_model)
      [] b = "tinydb" -> TinyDBRepository_all(self, entity_model)
      [] b = "pypika" -> PypikaRepository_all(self.connection, entity_model)

(* Whether the committed store holds a record of exactly this type and id *)
CommittedRecord(b, self, entity_model, entity_id) ==
    CASE b = "fake" ->
            /\ entity_model \in DOMAIN self.entities
            /\ entity_id \in DOMAIN self.entities[entity_model]
      [] b = "tinydb" ->
            \E k \in DOMAIN self.db_ :
                TinyMatch(self.db_[k], entity_model, entity_id)
      [] b = "pypika" ->
            \E k \in DOMAIN self.database[entity_model] :
                self.database[entity_model][k]["id_"] = entity_id

-----------------------------------------------------------------------------
(* search(entity_model, fields) of the three backends.  A Python value is  *)
(* [kind |-> "str" or "int" or "none", code |-> n]: the string of code n   *)
(* is the first n letters of the alphabet ("a", "ab", "abc"), so that a    *)
(* shorter string is a substring of a longer one; the integer of code n is *)
(* n.  fields is the sequence of the items of the filter dictionary.       *)

(* The Python value held by a field of a stored entity *)
FieldValue(class, attribute, v) ==
    [kind |-> IF v = None THEN "none" ELSE FieldType(class, attribute),
     code |-> v]

(* The characters of the string of a code *)
Str(code) == [k \in 1..code |-> k]

(* Python's item in obj for two strings, re.search(item, obj) for a plain *)
(* pattern                                                                *)
Contains(obj, item) ==
    \E k \in 0..(Len(obj) - Len(item)) : SubSeq(obj, k + 1, k + Len(item)) = item

(* deepdiff's match of one leaf value: strings by substring, numbers by *)
(* equality, no match across the two                                    *)
GrepMatch(obj, item) ==
    CASE obj.kind = "str" /\ item.kind = "str" ->
            Contains(Str(obj.code), Str(item.code))
      [] obj.kind = "int" /\ item.kind = "int" -> obj.code = item.code
      [] OTHER -> FALSE

(* entity_attributes | grep(value): the matched_values paths, as pairs of *)
(* the entity id and the field under which the value was found            *)
grep(entity_attributes, value) ==
    {path \in {<<ID(entity_attributes[k]), attribute>> :
                  k \in DOMAIN entity_attributes,
                  attribute \in {"id_", "first_name", "title"}} :
        \E k \in DOMAIN entity_attributes :
            LET entity == entity_attributes[k]
            IN /\ ID(entity) = path[1]
               /\ path[2] \in DOMAIN entity.attrs
               /\ GrepMatch(FieldValue(entity.type, path[2],
                                       entity.attrs[path[2]]), value)}

(* The loop over fields.items(): each filter keeps the entities that have *)
(* a matched path under the filter's key                                 *)
RECURSIVE FakeSearchLoop(_, _)
FakeSearchLoop(entity_attributes, fields) ==
    IF fields = <<>> THEN Ok(entity_attributes)
    ELSE LET key == Head(fields).key
             matched_values == grep(entity_attributes, Head(fields).value)
             matching(entity) == <<ID(entity), key>> \in matched_values
         IN IF matched_values = {} THEN Raise("EntityNotFoundError")
            ELSE FakeSearchLoop(SelectSeq(entity_attributes, matching),
                                Tail(fields))

FakeRepository_search(self, entity_model, fields) ==
    LET all_entities == FakeRepository_all(self, entity_model)
    IN IF all_entities.error # "none" THEN all_entities
       ELSE FakeSearchLoop(all_entities.value, fields)

(* One condition of the TinyDB query: Query()[key].search(value) for a *)
(* string value, Query()[key] == value otherwise                       *)
TinyCondition(doc, key, value) ==
    /\ key \in DOMAIN doc
    /\ LET stored == FieldValue(doc["model_type_"], key, doc[key])
       IN IF value.kind = "str"
          THEN stored.kind = "str" /\ Contains(Str(stored.code), Str(value.code))
          ELSE stored = value

TinyDBRepository_search(self, entity_model, fields) ==
    LET query(doc) ==
            /\ doc["model_type_"] = entity_model
            /\ \A k \in DOMAIN fields :
                   TinyCondition(doc, fields[k].key, fields[k].value)
        entities_data == SelectSeq(self.db_, query)
    IN IF entities_data = <<>> THEN Raise("EntityNotFoundError")
       ELSE Ok([k \in DOMAIN entities_data |->
                   _build_entity(entities_data[k], entity_model)])

(* One WHERE condition, table.key == value.  SQLite reads a double-quoted *)
(* name that is no column as a string literal, which equals none of the   *)
(* values of the model.                                                   *)
SqlCondition(table, row, key, value) ==
    /\ key \in TableColumns(table)
    /\ FieldValue(table, key, row[key]) = value

PypikaRepository_search(connection, entity_model, fields) ==
    LET table == _table(entity_model)
        where(row) ==
            \A k \in DOMAIN fields :
                SqlCondition(table, row, fields[k].key, fields[k].value)
        entities == _build_entities(entity_model,
                                    SelectSeq(connection[table], where))
    IN IF Len(entities) = 0 THEN Raise("EntityNotFoundError")
       ELSE Ok(entities)

search(b, self, entity_model, fields) ==
    CASE b = "fake" -> FakeRepository_search(self, entity_model, fields)
      [] b = "tinydb" -> TinyDBRepository_search(self, entity_model, fields)
      [] b = "pypika" ->
            PypikaRepository_search(self.connection, entity_model, fields)

(* The filter values of the search calls: the strings "a", "ab", "abc" *)
(* and the integers 1 .. MaxId + 1                                      *)
SearchValues ==
    {[kind |-> "str", code |-> c] : c \in 1..(MaxVal + 1)}
        \cup {[kind |-> "int", code |-> c] : c \in 1..(MaxId + 1)}

(* The filter dictionaries with one item: on a field of the class or on a *)
(* field the class does not have                                          *)
SingleFilters(entity_model) ==
    {<<[key |-> key, value |-> value]>> :
        key \in Range(attributes(entity_model)) \cup {"unexistent_field"},
        value \in SearchValues}

(* The filter dictionaries with two items, on the two fields of the class *)
DoubleFilters(entity_model) ==
    {pair[1] \o pair[2] :
        pair \in {p \in SingleFilters(entity_model) \X SingleFilters(entity_model) :
                     /\ p[1][1].key # p[2][1].key
                     /\ p[1][1].key # "unexistent_field"
                     /\ p[2][1].key # "unexistent_field"}}

-----------------------------------------------------------------------------
(* The state machine: one repository object, driven by add, delete and    *)
(* commit calls.  last records the latest call for the properties.        *)

(* The mapper configurations of tests/integration/test_repository_relationships.py *)
MapperConfigs ==
    {<<EntityExtension("extendingentity", "author")>>,
     <<EntityComposition("composingentity", "book", Unset, Unset, Unset)>>,
     <<EntityMultipleComposition("multiplecomposingentity", "book", Unset,
                                 Unset, Unset)>>}

(* The entities a client of the configured repository works with *)
Inputs ==
    IF mapper = <<>> THEN Authors \cup Books
    ELSE UNION {EntitiesOf(mapper[k].source) \cup EntitiesOf(mapper[k].destination)
                   : k \in DOMAIN mapper}

(* delete reads the type and the id of its argument only: one entity per  *)
(* type and id                                                            *)
DeleteInputs ==
    {CHOOSE entity \in EntitiesOf(class) : ID(entity) = i :
        class \in {entity.type : entity \in Inputs}, i \in Ids}

(* The entities nested in a composition attribute of an entity *)
Referenced(entity) ==
    IF "book" \in DOMAIN entity.attrs THEN Range(entity.attrs["book"])
    ELSE IF "author" \in DOMAIN entity.attrs
    THEN Range(entity.attrs["author"]) \cup Range(entity.attrs["books"])
    ELSE IF "books" \in DOMAIN entity.attrs THEN Range(entity.attrs["books"])
    ELSE {}

(* The entities the stored version of entity references and entity does not *)
Dropped(entity) ==
    LET stored == get(backend, mapper, repo, entity.type, ID(entity))
    IN IF stored.error # "none" THEN {}
       ELSE {b \in Referenced(stored.value) :
                ID(b) \notin {ID(x) : x \in Referenced(entity)}}

NewRepository(b) ==
    CASE b = "fake" -> FakeRepository_init
      [] b = "tinydb" -> TinyDBRepository_init
      [] b = "pypika" -> PypikaRepository_init

NoCall ==
    [op |-> "init", arg |-> <<>>, error |-> "none", before |-> "init",
     found |-> FALSE, committed |-> FALSE, dropped |-> {}]

Init ==
    /\ backend \in Backends
    /\ mapper = <<>>
    /\ repo = NewRepository(backend)
    /\ last = NoCall
    /\ steps = 0

InitRel ==
    /\ backend = "pypika"
    /\ mapper \in MapperConfigs
    /\ repo = NewRepository(backend)
    /\ last = NoCall
    /\ steps = 0

Call(op, entity, result) ==
    /\ repo' = result.self
    /\ last' = [op |-> op, arg |-> entity, error |-> result.error,
                before |-> last.op,
                found |-> get(backend, mapper, repo, entity.type,
                              ID(entity)).error = "none",
                committed |-> CommittedRecord(backend, repo, entity.type,
                                              ID(entity)),
                dropped |-> IF op = "add" THEN Dropped(entity) ELSE {}]
    /\ steps' = steps + 1
    /\ UNCHANGED <<backend, mapper>>

StepBound == IF mapper = <<>> THEN MaxSteps ELSE MaxRelSteps

Add(entity) ==
    /\ steps < StepBound
    /\ Call("add", entity, add(backend, mapper, repo, entity))

Delete(entity) ==
    /\ steps < StepBound
    /\ Call("delete", entity, delete(backend, mapper, repo, entity))

(* commit keeps the record of the call it follows; steps counts the add  *)
(* and delete calls only                                                  *)
Commit ==
    /\ repo' = commit(backend, repo).self
    /\ last' = [last EXCEPT !.op = "commit", !.before = last.op]
    /\ UNCHANGED <<backend, mapper, steps>>

Next ==
    \/ \E entity \in Inputs : Add(entity)
    \/ \E entity \in DeleteInputs : Delete(entity)
    \/ Commit

Spec == Init /\ [][Next]_vars

SpecRel == InitRel /\ [][Next]_vars

(* The relational repository with two relationships of one source type: *)
(* a Single Composition to Author and a Multiple Composition to Book    *)
InitJoint ==
    /\ backend = "pypika"
    /\ mapper = <<EntityComposition("singlemultiplecomposingentity", "author",
                                    Unset, Unset, Unset),
                  EntityMultipleComposition("singlemultiplecomposingentity",
                                            "book", Unset, Unset, Unset)>>
    /\ repo = NewRepository(backend)
    /\ last = NoCall
    /\ steps = 0

SpecJoint == InitJoint /\ [][Next]_vars

(* The FakeRepository and the entity objects of its caller: the caller *)
(* constructs entities, adds them, commits, and assigns to attributes  *)
(* of the objects it holds and of the objects get returns.             *)

(* What get and all return for every type and id *)
ObjectsView(self) ==
    [entity_model \in {"author", "book"} |->
        [get |-> [entity_id \in Ids |->
                    LET found == FakeObjects_get(self, entity_model, entity_id)
                    IN IF found.error # "none" THEN found
                       ELSE Ok(self.objects[found.value])],
         all |-> FakeObjects_all(self, entity_model)]]

InitObjects ==
    /\ backend = "fake"
    /\ mapper = <<>>
    /\ repo = FakeObjects_init
    /\ last = [op |-> "init", view |-> ObjectsView(FakeObjects_init)]
    /\ steps = 0

ObjectsCall(op, self) ==
    /\ steps < MaxObjectSteps
    /\ repo' = self
    /\ last' = [last EXCEPT !.op = op]
    /\ steps' = steps + 1
    /\ UNCHANGED <<backend, mapper>>

NewObject(entity) ==
    /\ Cardinality(repo.client) < MaxObjects
    /\ LET ref == <<"client", Cardinality(repo.client) + 1>>
       IN ObjectsCall("new", [repo EXCEPT !.objects = DictSet(@, ref, entity),
                                          !.client = @ \cup {ref}])

AddObject(ref) == ObjectsCall("add", FakeObjects_add(repo, ref))

CommitObjects ==
    /\ repo' = FakeObjects_commit(repo)
    /\ last' = [op |-> "commit", view |-> ObjectsView(FakeObjects_commit(repo))]
    /\ UNCHANGED <<backend, mapper, steps>>

AssignAdded(ref, value) == ObjectsCall("setattr", SetAttribute(repo, ref, value))

AssignGot(entity_model, entity_id, value) ==
    /\ FakeObjects_get(repo, entity_model, entity_id).error = "none"
    /\ ObjectsCall("get_setattr", SetAttribute(repo, FakeObjects_get(repo, entity_model, entity_id).value, value))

NextObjects ==
    \/ \E entity \in Authors \cup Books : NewObject(entity)
    \/ \E ref \in repo.client : AddObject(ref)
    \/ CommitObjects
    \/ \E ref \in repo.client, value \in Vals : AssignAdded(ref, value)
    \/ \E entity_model \in {"author", "book"}, entity_id \in Ids, value \in Vals : AssignGot(entity_model, entity_id, value)

SpecObjects == InitObjects /\ [][NextObjects]_vars

(* The demultiplexing of a joined result row: two entity classes of the *)
(* caller are joined in one query, and the attributes of either are     *)
(* extracted from the row.                                              *)

(* The declared attributes of a class of the caller: id_ and one more *)
DeclaredAttributes(class) == <<<<"i", "d", "_">>, class.attribute>>

(* The row of the joined query: the columns of the first class, then *)
(* those of the second; the value of a column tells where it is from *)
JoinedRow(classes) ==
    LET columns(k) == [j \in 1..2 |-> <<ColumnAlias(classes[k].name, DeclaredAttributes(classes[k])[j]), <<k, j>>>>]
    IN columns(1) \o columns(2)

InitAlias ==
    /\ backend = "pypika"
    /\ mapper = <<>>
    /\ repo \in {classes \in [1..2 -> [name : ClassNames, attribute : AttributeNames]] : classes[1].name # classes[2].name}
    /\ last = [op |-> "init"]
    /\ steps = 0

GetEntityAttributes(k) ==
    /\ last' = [op |-> "_get_entity_attributes", class |-> k,
                result |-> GetEntityAttributesByPattern(repo[k].name, JoinedRow(repo))]
    /\ UNCHANGED <<backend, mapper, repo, steps>>

NextAlias == \E k \in 1..2 : GetEntityAttributes(k)

SpecAlias == InitAlias /\ [][NextAlias]_vars

(* The recursion of the relational add over a graph of entity objects.  *)
(* Entity n refers to entity graph[n] through a Single Composition      *)
(* attribute, or to nothing (None); stack holds the active add calls,   *)
(* writes counts the _add_entity calls per entity.                      *)

(* entity.dict() descends into the nested entities without remembering *)
(* the ones it has seen: it does not end when the entity reaches a     *)
(* reference cycle                                                     *)
DictRecursesForever(graph, entity) ==
    LET Followed[k \in 0..MaxNodes] ==
            IF k = 0 THEN entity
            ELSE IF Followed[k - 1] = None THEN None
            ELSE graph[Followed[k - 1]]
    IN Followed[MaxNodes] # None

InitGraph ==
    /\ backend = "pypika"
    /\ mapper = <<>>
    /\ repo \in [graph : [1..MaxNodes -> (1..MaxNodes) \cup {None}], stack : {<<>>},
                 writes : {[n \in 1..MaxNodes |-> 0]}, outcome : {"none"}]
    /\ last = [op |-> "init"]
    /\ steps = 0

(* The caller's add(entity) *)
CallAdd(entity) ==
    /\ repo.stack = <<>>
    /\ repo.outcome = "none"
    /\ repo' = [repo EXCEPT !.stack = <<[entity |-> entity, pc |-> "_clean_relationships"]>>]
    /\ last' = [op |-> "add", arg |-> entity]
    /\ UNCHANGED <<backend, mapper, steps>>

(* _clean_relationships of the innermost call: entity.dict(), then  *)
(* self.add(populated_entity) when the attribute is populated; the  *)
(* RecursionError of an endless recursion ends every active call    *)
CleanRelationships ==
    /\ repo.stack # <<>>
    /\ LET top == Len(repo.stack)
           entity == repo.stack[top].entity
       IN /\ repo.stack[top].pc = "_clean_relationships"
          /\ repo' = IF DictRecursesForever(repo.graph, entity)
                     THEN [repo EXCEPT !.stack = <<>>, !.outcome = "RecursionError"]
                     ELSE IF repo.graph[entity] # None
                     THEN [repo EXCEPT !.stack = Append([@ EXCEPT ![top].pc = "_add_entity"],
                                                        [entity |-> repo.graph[entity], pc |-> "_clean_relationships"])]
                     ELSE [repo EXCEPT !.stack[top].pc = "_add_entity"]
    /\ UNCHANGED <<backend, mapper, last, steps>>

(* _add_entity of the innermost call, which then returns *)
AddEntity ==
    /\ repo.stack # <<>>
    /\ LET top == Len(repo.stack)
           entity == repo.stack[top].entity
       IN /\ repo.stack[top].pc = "_add_entity"
          /\ repo' = [repo EXCEPT !.stack = SubSeq(@, 1, top - 1),
                                  !.writes[entity] = @ + 1,
                                  !.outcome = IF top = 1 THEN "returned" ELSE @]
    /\ UNCHANGED <<backend, mapper, last, steps>>

NextGraph ==
    \/ \E entity \in 1..MaxNodes : CallAdd(entity)
    \/ CleanRelationships
    \/ AddEntity

SpecGraph == InitGraph /\ [][NextGraph]_vars

(* The configuration of a mapper: relationships are constructed and     *)
(* registered in the mapper, and attributes of registered relationships *)
(* are assigned.  last records the call.                                *)

(* The number of relationships of a mapper *)
MaxMapper == 2

(* The values given for source_id, destination_id and source_attribute *)
RelationshipArgs == {Unset, "id_", "name"}

(* The relationship classes with the entity classes the tests relate *)
RelationshipKinds ==
    {[kind |-> "EntityExtension", source |-> "extendingentity",
      destination |-> "author"],
     [kind |-> "EntityComposition", source |-> "composingentity",
      destination |-> "book"],
     [kind |-> "EntityMultipleComposition",
      source |-> "multiplecomposingentity", destination |-> "book"]}

(* The call of a relationship class *)
NewRelationship(class, source_id, destination_id, source_attribute) ==
    CASE class.kind = "EntityExtension" ->
            NewEntityExtension(class.source, class.destination, source_id,
                               destination_id)
      [] class.kind = "EntityComposition" ->
            Ok(EntityComposition(class.source, class.destination, source_id,
                                 destination_id, source_attribute))
      [] class.kind = "EntityMultipleComposition" ->
            Ok(EntityMultipleComposition(class.source, class.destination,
                                         source_id, destination_id,
                                         source_attribute))

InitMapper ==
    /\ backend = "pypika"
    /\ mapper = <<>>
    /\ repo = NewRepository("pypika")
    /\ last = NoCall
    /\ steps = 0

(* Mapper(relationships=[..., class(source=, destination=, ...)]) *)
Register(class, source_id, destination_id, source_attribute) ==
    LET result == NewRelationship(class, source_id, destination_id,
                                  source_attribute)
    IN /\ Len(mapper) < MaxMapper
       /\ steps < MaxMapper
       /\ mapper' = IF result.error = "none" THEN Append(mapper, result.value)
                    ELSE mapper
       /\ last' = [op |-> class.kind,
                   arg |-> [class |-> class, source_id |-> source_id,
                            destination_id |-> destination_id,
                            source_attribute |-> source_attribute],
                   result |-> result, before |-> mapper]
       /\ steps' = steps + 1
       /\ UNCHANGED <<backend, repo>>

(* relationship.field = value on a registered relationship: the models *)
(* declare no Config, so pydantic sets the attribute without running   *)
(* the validators                                                      *)
Assign(k, field, value) ==
    /\ steps < MaxMapper
    /\ mapper' = [mapper EXCEPT ![k][field] = value]
    /\ last' = [op |-> "setattr",
                arg |-> [index |-> k, field |-> field, value |-> value],
                result |-> Ok(value), before |-> mapper]
    /\ steps' = steps + 1
    /\ UNCHANGED <<backend, repo>>

NextMapper ==
    \/ \E class \in RelationshipKinds :
           \E source_id, destination_id, source_attribute \in RelationshipArgs :
               Register(class, source_id, destination_id, source_attribute)
    \/ \E k \in DOMAIN mapper :
           \E field \in {"source_id", "destination_id", "source_attribute"} :
               \E value \in {"id_", "name"} : Assign(k, field, value)

SpecMapper == InitMapper /\ [][NextMapper]_vars

(* PypikaRepository.apply_migrations, called by concurrent repository  *)
(* objects on the same store.  Here repo is the store with the calls:   *)
(* applied is the set of applied migrations, lock the call that holds   *)
(* the advisory lock of the migration runner (None when free), calls[p] *)
(* the position of call p in the function with the exception of its    *)
(* apply step (error), the fate of its rollback step (rollback) and how *)
(* it ended (outcome).                                                  *)

(* The number of migration scripts of the migrations directory *)
MaxMigrations == 2

(* The number of concurrent apply_migrations calls *)
MaxCalls == 3

Migrations == 1..MaxMigrations

Calls == 1..MaxCalls

(* backend.to_apply(migrations): the migrations not applied, in order *)
to_apply(applied) ==
    LET unapplied(migration) == migration \notin applied
    IN SelectSeq([k \in Migrations |-> k], unapplied)

(* backend.to_rollback(migrations): the applied migrations, last first *)
to_rollback(applied) ==
    LET is_applied(migration) == migration \in applied
    IN SelectSeq([k \in Migrations |-> MaxMigrations + 1 - k], is_applied)

InitMigrations ==
    /\ backend = "pypika"
    /\ mapper = <<>>
    /\ repo = [applied |-> {}, lock |-> None,
               calls |-> [p \in Calls |->
                             [pc |-> "lock", error |-> "none",
                              rollback |-> "none", outcome |-> "none"]]]
    /\ last = NoCall
    /\ steps = 0

MigrationStep(p, op, store) ==
    /\ repo' = store
    /\ last' = [op |-> op, arg |-> p]
    /\ UNCHANGED <<backend, mapper, steps>>

(* An entry of the with block that does not wait for the lock to be free *)
LockUnchecked(p) ==
    /\ repo.calls[p].pc = "lock"
    /\ MigrationStep(p, "lock",
                     [repo EXCEPT !.lock = p, !.calls[p].pc = "apply"])

(* with backend.lock(): entered when no other call holds the lock *)
Lock(p) ==
    /\ repo.calls[p].pc = "lock"
    /\ repo.lock = None
    /\ MigrationStep(p, "lock",
                     [repo EXCEPT !.lock = p, !.calls[p].pc = "apply"])

(* backend.lock() gives up waiting: the call raises without a migration step *)
LockTimeout(p) ==
    /\ repo.calls[p].pc = "lock"
    /\ repo.lock # None
    /\ MigrationStep(p, "timeout",
                     [repo EXCEPT !.calls[p].pc = "done",
                                  !.calls[p].outcome = "LockTimeout"])

(* backend.apply_migrations(backend.to_apply(migrations)): every migration *)
(* is applied (fail_at = 0), or migration number fail_at of the batch      *)
(* raises after the ones before it were applied                            *)
ApplyMigrations(p, fail_at) ==
    LET batch == to_apply(repo.applied)
        done == IF fail_at = 0 THEN Range(batch)
                ELSE {batch[k] : k \in 1..(fail_at - 1)}
    IN /\ repo.calls[p].pc = "apply"
       /\ fail_at \in 0..Len(batch)
       /\ MigrationStep(p, "apply",
              [repo EXCEPT !.applied = @ \cup done,
                           !.calls[p].pc = IF fail_at = 0 THEN "complete"
                                           ELSE "rollback",
                           !.calls[p].error = IF fail_at = 0 THEN "none"
                                              ELSE "MigrationError"])

(* backend.rollback_migrations(backend.to_rollback(migrations)) in the   *)
(* except block: every applied migration is rolled back (fail_at = 0),   *)
(* or rollback number fail_at raises and the error is raised again       *)
RollbackMigrations(p, fail_at) ==
    LET batch == to_rollback(repo.applied)
        done == IF fail_at = 0 THEN Range(batch)
                ELSE {batch[k] : k \in 1..(fail_at - 1)}
    IN /\ repo.calls[p].pc = "rollback"
       /\ fail_at \in 0..Len(batch)
       /\ MigrationStep(p, "rollback",
              [repo EXCEPT !.applied = @ \ done,
                           !.calls[p].pc = IF fail_at = 0 THEN "complete"
                                           ELSE "raise",
                           !.calls[p].rollback = IF fail_at = 0 THEN "done"
                                                 ELSE "RollbackError"])

(* The end of the with block after the try statement: the lock is *)
(* released and the call returns None                              *)
Complete(p) ==
    /\ repo.calls[p].pc = "complete"
    /\ MigrationStep(p, "return",
                     [repo EXCEPT !.lock = IF @ = p THEN None ELSE @,
                                  !.calls[p].pc = "done",
                                  !.calls[p].outcome = "returned"])

(* A raise that hands the error of the migration to the caller *)
RaiseFirstError(p) ==
    /\ repo.calls[p].pc = "raise"
    /\ MigrationStep(p, "raise",
                     [repo EXCEPT !.lock = IF @ = p THEN None ELSE @,
                                  !.calls[p].pc = "done",
                                  !.calls[p].outcome = repo.calls[p].error])

(* raise error in the inner except block: the lock is released and the *)
(* error of the rollback reaches the caller                            *)
RaiseError(p) ==
    /\ repo.calls[p].pc = "raise"
    /\ MigrationStep(p, "raise",
                     [repo EXCEPT !.lock = IF @ = p THEN None ELSE @,
                                  !.calls[p].pc = "done",
                                  !.calls[p].outcome = repo.calls[p].rollback])

NextMigrations ==
    \E p \in Calls :
        \/ Lock(p)
        \/ LockTimeout(p)
        \/ \E fail_at \in 0..MaxMigrations : ApplyMigrations(p, fail_at)
        \/ \E fail_at \in 0..MaxMigrations : RollbackMigrations(p, fail_at)
        \/ Complete(p)
        \/ RaiseError(p)

SpecMigrations == InitMigrations /\ [][NextMigrations]_vars

(* The repositories of both kinds, driven by add and commit calls only *)
NextUpsert ==
    \/ \E entity \in Inputs : Add(entity)
    \/ Commit

SpecUpsert == (Init \/ InitRel) /\ [][NextUpsert]_vars

-----------------------------------------------------------------------------
(* Properties of the repositories without relationships (Spec) *)

Result == get(backend, mapper, repo, last.arg.type, ID(last.arg))

Listing == all(backend, repo, last.arg.type)

AddCommitted ==
    last.op = "commit" /\ last.before = "add" /\ last.error = "none"

(* C1: in every backend, after add(e) followed by commit(),               *)
(* get(type(e), e.id) returns an entity equal to e.                       *)
C1_RoundTrip == AddCommitted => Result = Ok(last.arg)

(* C2: in every backend, after add(e) of an entity that has no committed  *)
(* record and before any commit(), get(type(e), e.id) and all(type(e)) on *)
(* the same repository do not return e.                                   *)
C2_StagedAddInvisible ==
    (last.op = "add" /\ last.error = "none" /\ ~last.committed)
        => /\ Result # Ok(last.arg)
           /\ (Listing.error # "none" \/ last.arg \notin Range(Listing.value))

(* C3: in every backend, after delete(e) of a committed entity and before *)
(* commit(), get(type(e), e.id) and all(type(e)) on the same repository   *)
(* still return the entity.                                               *)
C3_StagedDeleteInvisible ==
    (last.op = "delete" /\ last.error = "none" /\ last.committed)
        => /\ Result.error = "none"
           /\ Listing.error = "none"
           /\ Result.value \in Range(Listing.value)

(* C4: in every backend and every reachable state, delete(e) of an entity *)
(* that get(type(e), e.id) cannot retrieve fails with EntityNotFoundError.*)
C4_DeleteMissingFails ==
    (last.op = "delete" /\ ~last.found) => last.error = "EntityNotFoundError"

(* C9: in every backend, get(T, id) returns an entity, of type T and of   *)
(* that id, only when a committed record of exactly type T with that id   *)
(* exists, and otherwise fails with EntityNotFoundError.                  *)
C9_GetOnlyCommitted ==
    \A entity_model \in {"author", "book"}, entity_id \in Ids :
        LET found == get(backend, mapper, repo, entity_model, entity_id)
        IN IF CommittedRecord(backend, repo, entity_model, entity_id)
           THEN /\ found.error = "none"
                /\ found.value.type = entity_model
                /\ ID(found.value) = entity_id
           ELSE found.error = "EntityNotFoundError"

(* C10: in every backend, all(T) returns the committed entities of type T *)
(* in ascending id order, whatever the order they were added in.          *)
C10_AllAscending ==
    last.op = "commit"
        => \A entity_model \in {"author", "book"} :
              LET listed == all(backend, repo, entity_model)
              IN listed.error = "none" => IsAscending(listed.value)

-----------------------------------------------------------------------------
(* Properties of the relational repository with relationships (SpecRel) *)

LinksOf(database, entity) ==
    LET ofEntity(row) == row["multiplecomposingentity_id"] = ID(entity)
    IN SelectSeq(database["multiplecomposingentity_book_relationship"],
                 ofEntity)

MultipleAddCommitted ==
    AddCommitted /\ last.arg.type = "multiplecomposingentity"

(* C6: after add(s); commit() of a multiple composition source s, whatever*)
(* list s had before, the join table holds exactly one link from s per    *)
(* element of the list of s and none to another element, and              *)
(* get(type(s), s.id) returns exactly the destinations of that list.      *)
C6_MultipleCompositionIdempotence ==
    MultipleAddCommitted
        => LET links == LinksOf(repo.database, last.arg)
               books == last.arg.attrs["books"]
           IN /\ Len(links) = Len(books)
              /\ {links[k]["book_id"] : k \in DOMAIN links}
                    = {ID(book) : book \in Range(books)}
              /\ Result.error = "none"
              /\ Len(Result.value.attrs["books"]) = Len(books)
              /\ Range(Result.value.attrs["books"]) = Range(books)

(* An element of the committed list of s was removed by the add *)
C6_Witness == MultipleAddCommitted /\ last.dropped # {} /\ last.found

ExtendingAddCommitted ==
    AddCommitted /\ last.arg.type = "extendingentity"

(* C7: with Extension(source=S, destination=D) registered, after an S     *)
(* entity with id i is added and committed, get(D, i) fails with          *)
(* EntityNotFoundError while get(S, i) succeeds.                          *)
C7_ExtensionInvariant ==
    ExtendingAddCommitted
        => /\ get(backend, mapper, repo, "author", ID(last.arg)).error
                = "EntityNotFoundError"
           /\ Result.error = "none"

(* An extending entity is committed and its row of the destination table  *)
(* exists                                                                 *)
C7_Witness ==
    /\ ExtendingAddCommitted
    /\ \E k \in DOMAIN repo.database["author"] :
          repo.database["author"][k]["id_"] = ID(last.arg)

(* C8: after a source is re-added with its single composition attribute   *)
(* unset, or with an element removed from its multiple composition list,  *)
(* and the change is committed, each destination entity it referenced     *)
(* before is still returned by get and by all of its own type.            *)
C8_NoCascadeDelete ==
    AddCommitted
        => \A book \in last.dropped :
              /\ get(backend, mapper, repo, "book", ID(book)) = Ok(book)
              /\ all(backend, repo, "book").error = "none"
              /\ book \in Range(all(backend, repo, "book").value)

(* A source was re-added without the book it referenced, and committed *)
C8_Witness ==
    /\ AddCommitted
    /\ last.dropped # {}
    /\ last.arg.type = "composingentity"
    /\ last.arg.attrs["book"] = <<>>

-----------------------------------------------------------------------------
(* Further properties of the repositories without relationships (Spec) *)

(* C11: in every reachable state of every backend, all(T) either returns  *)
(* a non-empty sequence or fails with EntityNotFoundError, also after the *)
(* last entity of type T was deleted and the deletion committed.          *)
C11_AllNeverEmpty ==
    \A entity_model \in {"author", "book"} :
        LET listed == all(backend, repo, entity_model)
        IN IF listed.error = "none" THEN Len(listed.value) > 0
           ELSE listed.error = "EntityNotFoundError"

(* C12: search never returns an empty sequence: when no entity of the type *)
(* satisfies the filter (unknown field, value found nowhere, or value      *)
(* found only under another field), it fails with EntityNotFoundError.    *)
C12_SearchNeverEmpty ==
    \A entity_model \in {"author", "book"} :
        \A fields \in SingleFilters(entity_model) :
            LET found == search(backend, repo, entity_model, fields)
            IN IF found.error = "none" THEN Len(found.value) > 0
               ELSE found.error = "EntityNotFoundError"

(* The entities that all() lists for a type, as a set *)
Stored(entity_model) ==
    LET listed == all(backend, repo, entity_model)
    IN IF listed.error = "none" THEN Range(listed.value) ELSE {}

(* C13: in every backend a string filter matches the entities whose field *)
(* contains the string, and a non-string filter the entities whose field  *)
(* equals the value.                                                      *)
C13_SubstringMatch ==
    \A entity_model \in {"author", "book"} :
        \A fields \in SingleFilters(entity_model) :
            LET key == fields[1].key
                value == fields[1].value
                matches(entity) ==
                    LET stored == FieldValue(entity_model, key, entity.attrs[key])
                    IN IF value.kind = "str"
                       THEN /\ stored.kind = "str"
                            /\ Contains(Str(stored.code), Str(value.code))
                       ELSE stored = value
                expected == {entity \in Stored(entity_model) : matches(entity)}
                found == search(backend, repo, entity_model, fields)
            IN key # "unexistent_field" =>
                  IF expected = {}
                  THEN found.error = "none" => found.value = <<>>
                  ELSE found.error = "none" /\ Range(found.value) = expected

(* The committed entities of a type: what a second repository object on *)
(* the same store lists                                                 *)
CommittedEntities(entity_model) ==
    LET listed == IF backend = "pypika"
                  THEN PypikaRepository_all(repo.database, entity_model)
                  ELSE all(backend, repo, entity_model)
    IN IF listed.error = "none" THEN Range(listed.value) ELSE {}

(* Whether an entity satisfies one filter: a string by substring, any *)
(* other value by equality                                            *)
Satisfies(entity, filter) ==
    /\ filter.key \in DOMAIN entity.attrs
    /\ LET stored == FieldValue(entity.type, filter.key, entity.attrs[filter.key])
       IN IF filter.value.kind = "str"
          THEN stored.kind = "str" /\ Contains(Str(stored.code), Str(filter.value.code))
          ELSE stored = filter.value

(* C14: a search with several filters returns exactly the committed      *)
(* entities of the type that satisfy all the filters, each of them once. *)
C14_SearchConjunction ==
    \A entity_model \in {"author", "book"} :
        \A fields \in DoubleFilters(entity_model) :
            LET expected == {entity \in CommittedEntities(entity_model) :
                                \A k \in DOMAIN fields : Satisfies(entity, fields[k])}
                found == search(backend, repo, entity_model, fields)
            IN IF found.error = "none"
               THEN /\ Range(found.value) = expected
                    /\ Len(found.value) = Cardinality(expected)
               ELSE expected = {}

(* The staging area of a repository is empty: nothing waits for a commit *)
StagingEmpty(b, self) ==
    CASE b = "fake" -> self.new_entities = <<>>
      [] b = "tinydb" -> self.staged.add = <<>> /\ self.staged.remove = <<>>
      [] b = "pypika" -> self.connection = self.database

(* The committed state of a repository *)
CommittedState(b, self) ==
    CASE b = "fake" -> self.entities
      [] b = "tinydb" -> self.db_
      [] b = "pypika" -> self.database

(* C15: commit is idempotent: after a commit the staging area is empty, a *)
(* commit with nothing staged leaves the committed state unchanged, and a *)
(* second commit changes nothing.                                         *)
C15_CommitIdempotent ==
    LET once == commit(backend, repo).self
        twice == commit(backend, once).self
    IN /\ StagingEmpty(backend, once)
       /\ twice = once
       /\ StagingEmpty(backend, repo) =>
              CommittedState(backend, once) = CommittedState(backend, repo)

(* Two commits in a row on a repository that holds entities *)
C15_Witness ==
    /\ last.op = "commit"
    /\ last.before = "commit"
    /\ CommittedState(backend, repo) # CommittedState(backend, NewRepository(backend))

-----------------------------------------------------------------------------
(* Upsert by identity (SpecUpsert) *)

(* The committed records of a type and id, each as its stored fields *)
CommittedRecords(b, self, entity_model, entity_id) ==
    CASE b = "fake" ->
            IF /\ entity_model \in DOMAIN self.entities
               /\ entity_id \in DOMAIN self.entities[entity_model]
            THEN <<self.entities[entity_model][entity_id].attrs>>
            ELSE <<>>
      [] b = "tinydb" ->
            LET match(doc) == TinyMatch(doc, entity_model, entity_id)
            IN SelectSeq(self.db_, match)
      [] b = "pypika" ->
            LET match(row) == row["id_"] = entity_id
            IN SelectSeq(self.database[entity_model], match)

(* The stored fields of a record are the scalar attributes of the entity *)
RecordOf(record, entity) ==
    \A field \in (DOMAIN record) \cap (DOMAIN entity.attrs) :
        field \notin {"book", "books"} => record[field] = entity.attrs[field]

(* C16: there is at most one committed record per entity type and id, and *)
(* once an add is committed the record of the added entity, and of every  *)
(* entity it references, holds the last-added attribute values.          *)
C16_UpsertByIdentity ==
    /\ \A entity_model \in EntityClasses, entity_id \in Ids :
           Len(CommittedRecords(backend, repo, entity_model, entity_id)) <= 1
    /\ (last.op = "commit" /\ last.before = "add" /\ last.error = "none") =>
           \A entity \in {last.arg} \cup Referenced(last.arg) :
               LET records == CommittedRecords(backend, repo, entity.type,
                                               ID(entity))
               IN Len(records) = 1 /\ RecordOf(records[1], entity)

(* The add of a composing entity whose id was already committed is *)
(* committed together with the entity it references                *)
C16_Witness ==
    /\ last.op = "commit"
    /\ last.before = "add"
    /\ last.error = "none"
    /\ last.committed
    /\ Referenced(last.arg) # {}

-----------------------------------------------------------------------------
(* Deletion *)

(* The repository after delete(entity) and commit() *)
DeleteCommitted(entity) ==
    commit(backend, delete(backend, mapper, repo, entity).self).self

(* C17: after delete(e) of a committed entity and commit(), get of e fails *)
(* with EntityNotFoundError, all() of its type does not contain it, and    *)
(* every other committed entity of any type is returned unchanged.        *)
C17_DeleteFrame ==
    StagingEmpty(backend, repo) =>
        \A entity \in DeleteInputs :
            CommittedRecord(backend, repo, entity.type, ID(entity)) =>
                LET after == DeleteCommitted(entity)
                    listed == all(backend, after, entity.type)
                IN /\ get(backend, mapper, after, entity.type, ID(entity)).error
                          = "EntityNotFoundError"
                   /\ listed.error = "none" =>
                          \A k \in DOMAIN listed.value : ID(listed.value[k]) # ID(entity)
                   /\ \A other \in DeleteInputs :
                          other # entity =>
                              get(backend, mapper, after, other.type, ID(other))
                                  = get(backend, mapper, repo, other.type, ID(other))

-----------------------------------------------------------------------------
(* Further properties of the relational repository with a mapper (SpecRel) *)

(* C18: add(e) followed by commit() also persists every entity that e *)
(* references through a Single or Multiple Composition: get returns   *)
(* each of them, even when it was never added on its own.             *)
C18_RecursiveAdd ==
    (last.op = "commit" /\ last.before = "add" /\ last.error = "none") =>
        \A referenced \in Referenced(last.arg) :
            /\ get(backend, mapper, repo, referenced.type, ID(referenced))
                   = Ok(referenced)
            /\ CommittedRecord(backend, repo, referenced.type, ID(referenced))

(* The first call on the repository added an entity that references *)
(* another, and was committed                                       *)
C18_Witness ==
    /\ last.op = "commit"
    /\ last.before = "add"
    /\ last.error = "none"
    /\ steps = 1
    /\ Referenced(last.arg) # {}

(* C19: after add(s); commit() of a source of a Single Composition, get *)
(* returns the composed attribute as it was in this last add: the last  *)
(* destination entity, or None when it was unpopulated or unset.        *)
C19_SingleCompositionLastAdd ==
    (/\ last.op = "commit"
     /\ last.before = "add"
     /\ last.error = "none"
     /\ last.arg.type = "composingentity") =>
        LET result == get(backend, mapper, repo, last.arg.type, ID(last.arg))
        IN /\ result.error = "none"
           /\ result.value.attrs["book"] = last.arg.attrs["book"]

(* A committed source is added again with another destination, or with *)
(* none, and the add is committed                                     *)
C19_Witness ==
    /\ last.op = "commit"
    /\ last.before = "add"
    /\ last.error = "none"
    /\ last.arg.type = "composingentity"
    /\ last.committed
    /\ last.dropped # {}

-----------------------------------------------------------------------------
(* The entity model (Spec) *)

(* C20: two entities are equal if and only if they have the same type and *)
(* the same id, whatever their other attribute values are; here the       *)
(* entity given to the last call and the entities the repository lists.  *)
C20_IdentityEquality ==
    last.op # "init" =>
        \A other \in Stored("author") \cup Stored("book") :
            __eq__(last.arg, other)
                <=> (last.arg.type = other.type /\ ID(last.arg) = ID(other))

(* C21: < and > order two entities by id when both ids have the same     *)
(* runtime type, and raise TypeError when one id is an integer and the   *)
(* other a string, in either operand order; here the entity given to the *)
(* last call against the entities the repository lists.                  *)
C21_Comparison ==
    last.arg # <<>> =>
        \A other \in Stored("author") \cup Stored("book") :
            IF FieldType(last.arg.type, "id_") = FieldType(other.type, "id_")
            THEN /\ __lt__(last.arg, other) = Ok(ID(last.arg) < ID(other))
                 /\ __gt__(last.arg, other) = Ok(ID(last.arg) > ID(other))
                 /\ __lt__(other, last.arg) = __gt__(last.arg, other)
            ELSE /\ __lt__(last.arg, other).error = "TypeError"
                 /\ __lt__(other, last.arg).error = "TypeError"
                 /\ __gt__(last.arg, other).error = "TypeError"
                 /\ __gt__(other, last.arg).error = "TypeError"

(* The last call was given an entity with a string id while the repository *)
(* lists an entity with an integer id and one with another string id      *)
C21_Witness ==
    /\ last.arg # <<>>
    /\ last.arg.type = "author"
    /\ Stored("book") # {}
    /\ \E other \in Stored("author") : ID(other) # ID(last.arg)

-----------------------------------------------------------------------------
(* The relationship model and the mapper (SpecMapper) *)

KeptOrDefault(supplied, default) ==
    IF supplied = Unset THEN default ELSE supplied

(* As first stated for C23: for Single and Multiple Composition a supplied *)
(* source_id, destination_id or source_attribute is kept; when not         *)
(* supplied, source_id defaults to <destination>_id, destination_id to the *)
(* identity field and source_attribute to <destination> (Single) or        *)
(* <destination>s (Multiple).                                              *)
C23_Original ==
    last.op \in {"EntityComposition", "EntityMultipleComposition"} =>
        LET relationship == last.result.value
            destination == last.arg.class.destination
        IN /\ last.result.error = "none"
           /\ relationship.source_id
                  = KeptOrDefault(last.arg.source_id, destination \o "_id")
           /\ relationship.destination_id
                  = KeptOrDefault(last.arg.destination_id, "id_")
           /\ relationship.source_attribute
                  = KeptOrDefault(last.arg.source_attribute,
                                  IF last.op = "EntityComposition"
                                  THEN destination ELSE destination \o "s")

(* C23: for Single and Multiple Composition a supplied source_id,         *)
(* destination_id or source_attribute is kept; when not supplied,         *)
(* source_id defaults to <destination>_id for a Single and to the         *)
(* identity field for a Multiple Composition, destination_id to the       *)
(* identity field, and source_attribute to <destination> (Single) or      *)
(* <destination>s (Multiple).                                             *)
C23_CompositionDefaults ==
    last.op \in {"EntityComposition", "EntityMultipleComposition"} =>
        LET relationship == last.result.value
            destination == last.arg.class.destination
        IN /\ last.result.error = "none"
           /\ relationship.source_id
                  = KeptOrDefault(last.arg.source_id,
                                  IF last.op = "EntityComposition"
                                  THEN destination \o "_id" ELSE "id_")
           /\ relationship.destination_id
                  = KeptOrDefault(last.arg.destination_id, "id_")
           /\ relationship.source_attribute
                  = KeptOrDefault(last.arg.source_attribute,
                                  IF last.op = "EntityComposition"
                                  THEN destination ELSE destination \o "s")

(* A Multiple Composition was constructed with a source_attribute and *)
(* without a source_id                                                *)
C23_Witness ==
    /\ last.op = "EntityMultipleComposition"
    /\ last.arg.source_id = Unset
    /\ last.arg.source_attribute = "name"

(* C24: a relationship is immutable after construction: every registered *)
(* Extension has source_id and destination_id equal to the identity      *)
(* field, and an assignment leaves every relationship as it was          *)
(* constructed.                                                          *)
C24_RelationshipImmutable ==
    /\ \A k \in DOMAIN mapper :
           is_(mapper[k], "EntityExtension") =>
               mapper[k].source_id = "id_" /\ mapper[k].destination_id = "id_"
    /\ last.op = "setattr" => mapper = last.before

(* The relationships get_relationships is expected to return: those of *)
(* the mapper, in registration order, that have the class as source or *)
(* destination                                                         *)
Affecting(entity_model) ==
    LET indexes == {k \in DOMAIN mapper :
                       \/ mapper[k].source = entity_model
                       \/ mapper[k].destination = entity_model}
        nth(j) == CHOOSE k \in indexes :
                      Cardinality({i \in indexes : i < k}) = j - 1
    IN [j \in 1..Cardinality(indexes) |-> mapper[nth(j)]]

(* C25: get_relationships(T) returns exactly the registered relationships *)
(* whose source or destination type is T, in registration order.          *)
C25_GetRelationships ==
    \A entity_model \in EntityClasses :
        get_relationships(mapper, entity_model) = Affecting(entity_model)

(* Two relationships with the class book as destination are registered; *)
(* only the second has the class composingentity as source              *)
C25_Witness ==
    /\ Len(mapper) = 2
    /\ mapper[1].source = "multiplecomposingentity"
    /\ mapper[2].source = "composingentity"
    /\ Len(get_relationships(mapper, "book")) = 2
    /\ Len(get_relationships(mapper, "composingentity")) = 1

-----------------------------------------------------------------------------
(* apply_migrations (SpecMigrations) *)

(* C26: when applying the pending migrations fails, a rollback of the   *)
(* batch is attempted; when that rollback fails, the error of the       *)
(* rollback, not the error of the migration, reaches the caller.        *)
C26_RollbackErrorPropagated ==
    \A p \in Calls :
        LET call == repo.calls[p]
        IN /\ (call.error # "none" /\ call.pc \in {"complete", "raise", "done"})
                  => call.rollback # "none"
           /\ (call.rollback = "RollbackError" /\ call.pc = "done")
                  => call.outcome = "RollbackError"
           /\ call.error = "none" => call.rollback = "none"

(* A call whose migration failed and whose rollback failed has ended *)
C26_Witness ==
    \E p \in Calls :
        /\ repo.calls[p].pc = "done"
        /\ repo.calls[p].error = "MigrationError"
        /\ repo.calls[p].rollback = "RollbackError"

(* C27: a call to apply_migrations whose migration batch failed never *)
(* returns normally, also when the rollback that follows succeeds.    *)
C27_NoSilentFailure ==
    \A p \in Calls :
        repo.calls[p].error # "none" => repo.calls[p].outcome # "returned"

(* C28: the apply step and the rollback step of a call run only while *)
(* the call holds the advisory lock, so the steps of two concurrent   *)
(* calls never interleave.                                            *)
C28_MigrationSerialization ==
    /\ \A p \in Calls :
           repo.calls[p].pc \in {"apply", "rollback", "complete", "raise"}
               => repo.lock = p
    /\ last.op \in {"apply", "rollback"} => repo.lock = last.arg
    /\ \A p, q \in Calls :
           (/\ repo.calls[p].pc \in {"apply", "rollback", "complete", "raise"}
            /\ repo.calls[q].pc \in {"apply", "rollback", "complete", "raise"})
               => p = q

(* A call rolls back its failed batch while another call waits for the *)
(* lock                                                                *)
C28_Witness ==
    \E p, q \in Calls :
        /\ p # q
        /\ last = [op |-> "rollback", arg |-> p]
        /\ repo.calls[q].pc = "lock"

-----------------------------------------------------------------------------
(* The document store (Spec) *)

(* C29: last(T, committed_only) of the document store returns the entity *)
(* of type T with the greatest id among the committed entities, and also *)
(* among the staged adds when committed_only is false; it fails with     *)
(* EntityNotFoundError when there is no candidate, and staged adds of    *)
(* other types never change the result.                                  *)
C29_Last ==
    backend = "tinydb" =>
        \A entity_model \in {"author", "book"}, committed_only \in BOOLEAN :
            LET staged_adds ==
                    {entity \in Range(repo.staged.add) : entity.type = entity_model}
                candidates ==
                    IF committed_only THEN Stored(entity_model)
                    ELSE Stored(entity_model) \cup staged_adds
                result == TinyDBRepository_last(repo, entity_model, committed_only)
            IN IF candidates = {} THEN result.error = "EntityNotFoundError"
               ELSE /\ result.error = "none"
                    /\ result.value \in candidates
                    /\ \A entity \in candidates : ID(entity) <= ID(result.value)

-----------------------------------------------------------------------------
(* The Extension destination in the relational repository (SpecRel) *)

(* C30: with Extension(source=S, destination=D) registered, get(D, i)   *)
(* returns the entity that was added and committed directly as type D   *)
(* whenever i is not the id of any S entity.                            *)
C30_GetDestinationDirect ==
    (mapper = <<EntityExtension("extendingentity", "author")>> /\ StagingEmpty(backend, repo)) =>
        \A i \in Ids :
            (/\ CommittedRecord(backend, repo, "author", i)
             /\ ~CommittedRecord(backend, repo, "extendingentity", i)) =>
                LET found == get(backend, mapper, repo, "author", i)
                IN /\ found.error = "none"
                   /\ found.value.type = "author"
                   /\ ID(found.value) = i

-----------------------------------------------------------------------------
(* Links of a Multiple Composition (SpecRel) *)

(* The repository after add(entity) and commit() *)
AfterAdd(entity) ==
    commit(backend, add(backend, mapper, repo, entity).self).self

(* The committed join-table links of the source with this id *)
SourceLinks(self, relationship, entity_id) ==
    LET ofSource(row) == row[RelationshipColumns(relationship)[1]] = entity_id
    IN Range(SelectSeq(self.database[RelationshipTable(relationship)], ofSource))

(* The ids of the entities get lists under the source attribute *)
ListedIds(self, relationship, entity_id) ==
    LET found == get(backend, mapper, self, relationship.source, entity_id)
    IN IF found.error # "none" THEN {found.error}
       ELSE {ID(b) : b \in Range(found.value.attrs[relationship.source_attribute])}

(* C31: re-adding a source A with a Multiple Composition list from which *)
(* a destination was removed leaves the join-table links of every other  *)
(* source B of the same type unchanged, and get(B) lists the same        *)
(* destinations as before.                                               *)
C31_RelinkFrame ==
    (/\ mapper # <<>>
     /\ is_(mapper[1], "EntityMultipleComposition")
     /\ StagingEmpty(backend, repo)) =>
        \A A \in EntitiesOf(mapper[1].source), B \in Ids :
            (/\ B # ID(A)
             /\ CommittedRecord(backend, repo, A.type, ID(A))
             /\ CommittedRecord(backend, repo, A.type, B)
             /\ add(backend, mapper, repo, A).error = "none") =>
                /\ SourceLinks(AfterAdd(A), mapper[1], B) = SourceLinks(repo, mapper[1], B)
                /\ ListedIds(AfterAdd(A), mapper[1], B) = ListedIds(repo, mapper[1], B)

-----------------------------------------------------------------------------
(* Two relationships of one source type (SpecJoint) *)

(* C32: with a Single and a Multiple Composition registered for the same *)
(* source, get of a committed source succeeds, the single attribute      *)
(* holds its destination and the list holds every linked destination     *)
(* exactly once.                                                         *)
C32_IndependentRelationships ==
    (AddCommitted /\ last.arg.type = "singlemultiplecomposingentity") =>
        /\ Result.error = "none"
        /\ Result.value.attrs["author"] = last.arg.attrs["author"]
        /\ Len(Result.value.attrs["books"]) = Len(last.arg.attrs["books"])
        /\ Range(Result.value.attrs["books"]) = Range(last.arg.attrs["books"])

-----------------------------------------------------------------------------
(* Deleting a referenced entity (SpecRel) *)

(* The ids of the entities an entity references *)
ReferencedIds(entity) == {ID(b) : b \in Referenced(entity)}

(* C33: after a destination referenced through a Single or Multiple     *)
(* Composition is deleted and the deletion committed, get of the source  *)
(* still succeeds and no longer references the deleted entity.           *)
C33_SourceSurvivesDelete ==
    (/\ mapper # <<>>
     /\ mapper[1].kind \in {"EntityComposition", "EntityMultipleComposition"}
     /\ StagingEmpty(backend, repo)) =>
        \A i \in Ids, d \in {e \in DeleteInputs : e.type = mapper[1].destination} :
            LET before == get(backend, mapper, repo, mapper[1].source, i)
                after == get(backend, mapper, DeleteCommitted(d), mapper[1].source, i)
            IN (/\ before.error = "none"
                /\ ID(d) \in ReferencedIds(before.value)) =>
                   /\ after.error = "none"
                   /\ ReferencedIds(after.value) = ReferencedIds(before.value) \ {ID(d)}

-----------------------------------------------------------------------------
(* all and search against get (SpecRel) *)

(* C34: with relationships registered, for every committed entity that   *)
(* get(T, id) returns, all(T) and search(T, {"id_": id}) return an       *)
(* entity equal to it, extended and composed attributes included.        *)
C34_ListingAgreesWithGet ==
    (mapper # <<>> /\ StagingEmpty(backend, repo)) =>
        \A i \in Ids :
            LET entity_model == mapper[1].source
                found == get(backend, mapper, repo, entity_model, i)
                listed == all(backend, repo, entity_model)
                searched == search(backend, repo, entity_model, <<[key |-> "id_", value |-> FieldValue(entity_model, "id_", i)]>>)
            IN found.error = "none" =>
                  /\ listed.error = "none"
                  /\ \E k \in DOMAIN listed.value : listed.value[k] = found.value
                  /\ searched.error = "none"
                  /\ \E k \in DOMAIN searched.value : searched.value[k] = found.value

-----------------------------------------------------------------------------
(* The order of the staged operations (Spec) *)

(* The repository after delete(entity), add(entity) and commit() *)
DeleteAddCommitted(entity) ==
    LET deleted == delete(backend, mapper, repo, entity)
        added == add(backend, mapper, deleted.self, entity)
    IN IF deleted.error # "none" THEN deleted
       ELSE IF added.error # "none" THEN added
       ELSE commit(backend, added.self)

(* C35: in every backend, delete(e) of a committed entity followed by *)
(* add(e) and then commit() leaves e retrievable by get.              *)
C35_StagedOrder ==
    StagingEmpty(backend, repo) =>
        \A entity \in Inputs :
            (/\ CommittedRecord(backend, repo, entity.type, ID(entity))
             /\ DeleteAddCommitted(entity).error = "none") =>
                get(backend, mapper, DeleteAddCommitted(entity).self, entity.type, ID(entity)) = Ok(entity)

-----------------------------------------------------------------------------
(* Entity objects and the FakeRepository (SpecObjects) *)

(* C36: what get and all return changes only as the result of a commit: *)
(* assigning to an attribute of an object that was added and committed, *)
(* or of an object get returned, leaves the results of get and all as   *)
(* they were after the latest commit.                                   *)
C36_OnlyCommitChangesResults == ObjectsView(repo) = last.view

-----------------------------------------------------------------------------
(* The order of the writes of the relational add (SpecRel) *)

(* The records add(entity) writes for the entities the source refers to *)
DestinationsOf(relationship, entity) ==
    IF is_(relationship, "EntityExtension")
    THEN {Author(ID(entity), entity.attrs["first_name"])}
    ELSE Referenced(entity)

(* C37: relational add writes in dependency order: when the source      *)
(* record is upserted every referenced destination record is already    *)
(* written and no join table has been changed yet; the join-table        *)
(* queries run after the source record's upsert.                        *)
C37_DependencyOrder ==
    mapper # <<>> =>
        \A entity \in EntitiesOf(mapper[1].source) :
            LET source_table == _table(entity.type)
                cleaned == _clean_relationships(repo.connection, mapper, entity)
                added == _add_entity(cleaned.connection, entity, cleaned.entity_attributes)
                done == PypikaRepository_add(repo.connection, mapper, entity)
            IN done.error = "none" =>
                  /\ \A d \in DestinationsOf(mapper[1], entity) : d.attrs \in Range(cleaned.connection[_table(d.type)])
                  /\ cleaned.connection[source_table] = repo.connection[source_table]
                  /\ \E row \in Range(added.connection[source_table]) : row["id_"] = ID(entity)
                  /\ \A table \in RelationshipTables : added.connection[table] = repo.connection[table]
                  /\ is_(mapper[1], "EntityMultipleComposition") =>
                        \A d \in Referenced(entity) : \E row \in Range(done.connection[RelationshipTable(mapper[1])]) :
                            row = [c \in Range(RelationshipColumns(mapper[1])) |-> IF c = RelationshipColumns(mapper[1])[1] THEN ID(entity) ELSE ID(d)]

(* A source with two linked destinations was added: the join table *)
(* holds its links                                                 *)
C37_Witness ==
    /\ mapper # <<>>
    /\ is_(mapper[1], "EntityMultipleComposition")
    /\ last.op = "add"
    /\ last.error = "none"
    /\ last.arg.type = mapper[1].source
    /\ Len(last.arg.attrs["books"]) = 2
    /\ Len(repo.connection[RelationshipTable(mapper[1])]) >= 2

-----------------------------------------------------------------------------
(* Demultiplexing by type prefix (SpecAlias) *)

(* C38: from a joined result row each joined entity type receives       *)
(* exactly its own attributes under their own names, for any pair of    *)
(* joined types.                                                        *)
C38_Demultiplex ==
    last.op = "_get_entity_attributes" =>
        last.result = [attribute \in Range(DeclaredAttributes(repo[last.class])) |->
                          <<last.class, CHOOSE j \in 1..2 : DeclaredAttributes(repo[last.class])[j] = attribute>>]

-----------------------------------------------------------------------------
(* The recursion of the relational add (SpecGraph) *)

(* C39: add(e) ends by returning for every entity graph, also when the *)
(* entities reference each other cyclically: the recursion is never    *)
(* deeper than the number of entities, it never ends in a              *)
(* RecursionError, and no entity is written more than once.            *)
C39_AddTerminates ==
    /\ repo.outcome # "RecursionError"
    /\ Len(repo.stack) <= MaxNodes
    /\ \A n \in 1..MaxNodes : repo.writes[n] <= 1

====
